---- MODULE Spec2Model ----
(***************************************************************************)
(* A model of connector_arrow's Arrow destination                          *)
(* (src/connector_arrow/src/destinations/arrow/mod.rs): ArrowDestination,  *)
(* its ArrowPartitionWriter threads and the shared, mutex-guarded list of  *)
(* RecordBatches; of the BigQuery source and its parser                    *)
(* (src/connector_arrow/src/sources/bigquery/mod.rs); and of the DuckDB    *)
(* store (src/connector_arrow/src/duckdb) with the round trip of a parquet *)
(* file through it (src/connector_arrow/tests/it/util.rs).                 *)
(***************************************************************************)
EXTENDS Integers, Sequences, FiniteSets, TLC

(***************************************************************************)
(* Bounds of the model.                                                    *)
(***************************************************************************)
\* Number of partition writers alloc_writer may hand out.
MaxWriters == 2
\* Total number of set_schema, alloc_writer, consume and get_one calls, with
\* several writers (finalize, drop and finish are not counted).
MaxCalls == 5
\* The same, with a single writer.
MaxCallsOne == 8
\* Largest batch_size given to new_with_batch_size (0 is accepted too).
MaxBatch == 2
\* Largest number of columns of a BigQuery result.
MaxCols == 2
\* Largest total_rows of a BigQuery result.
MaxRows == 4
\* Largest number of rows the BigQuery service puts in one page.
MaxPage == 2
\* Number of fetch_next and produce calls made on a parser.
MaxParserCalls == 9
\* Largest number of partition queries given to set_queries.
MaxQueries == 2
\* Number of set_queries, fetch_metadata and reader calls made on a source.
MaxSourceCalls == 4
\* Number of table_create, table_drop and roundtrip_of_parquet calls made on
\* a connection.
MaxStoreCalls == 2
\* Largest number of record batches read from a parquet file.
MaxFileBatches == 2
\* Largest number of rows of one such batch.
MaxFileRows == 2

Writers == 1..MaxWriters

(***************************************************************************)
(* The type system.  A tag stands for a variant of ArrowTypeSystem, and,   *)
(* as the T of consume::<T>, for the Rust type associated with it.         *)
(***************************************************************************)
Tags == {"Int64", "Utf8", "Decimal128"}

\* Tags no Realize<F> dispatch covers: realizing one is UnsupportedType.
UnsupportedTags == {"Decimal128"}

\* Realize::<F>::realize(dt) succeeds.
RealizeOk(dt) == dt \notin UnsupportedTags

\* The T of the consume::<T> calls made.
ValueTypes == {"Int64", "Utf8"}

\* schema[col].check::<T>() succeeds.
Check(dt, T) == dt = T

\* The schemas set_schema is called with: Schema<ArrowTypeSystem> as the
\* sequence of its (name, type) pairs.
SchemaEmpty == << >>
SchemaA == << [name |-> "a", ty |-> "Int64"] >>
SchemaAB == << [name |-> "a", ty |-> "Int64"], [name |-> "b", ty |-> "Utf8"] >>
SchemaD == << [name |-> "d", ty |-> "Decimal128"] >>
Schemas == {SchemaEmpty, SchemaA, SchemaAB, SchemaD}

DataOrders == {"RowMajor", "ColumnMajor"}

\* const DATA_ORDERS of impl Destination for ArrowDestination
DestinationDataOrders == {"ColumnMajor", "RowMajor"}

\* schema.types
TypesOf(s) == [i \in 1..Len(s) |-> s[i].ty]

(***************************************************************************)
(* State.                                                                  *)
(***************************************************************************)
VARIABLES
    schema,         \* ArrowDestination.schema
    arrow_schema,   \* ArrowDestination.arrow_schema (the ArrowSchema's fields)
    batch_size,     \* ArrowDestination.batch_size
    data,           \* the Vec<RecordBatch> behind Arc<Mutex<..>>
    mutex,          \* the threads holding the output mutex ({} or one thread)
    poisoned,       \* the mutex's poison flag
    dest,           \* the destination: "live", "locked" (inside get_one), "gone"
    dret,           \* what the destination's last operation returned
    writers,        \* the ArrowPartitionWriters
    hist,           \* history of each writer (not program state)
    acq,            \* the flushes that acquired the mutex, in order (not program state)
    pushed,         \* every batch ever pushed, in push order (not program state)
    popped,         \* the batches get_one returned (not program state)
    budget,         \* calls made so far (bounds the model)
    scope,          \* the run's bounds: writers handed out, calls made
    table,          \* the BigQuery job's result: total_rows, rows per page, nulls
    response,       \* BigQuerySourceParser.response: rows, page_token
    parser,         \* BigQuerySourceParser: ncols, current_row, current_col, nrows
    pret,           \* what the parser's last call returned
    produced,       \* the outcome of every produce call, in order (not program state)
    source,         \* BigQuerySource: queries, names and types; its last call
    store,          \* the DuckDB connection: its tables; its last call
    cell            \* one cell of a response and what the producers made of it

vars == << schema, arrow_schema, batch_size, data, mutex, poisoned, dest, dret,
           writers, hist, acq, pushed, popped, budget, scope,
           table, response, parser, pret, produced, source, store, cell >>

\* The BigQuery source's and parser's and the store's part of the state.
pvars == << table, response, parser, pret, produced, source, store, cell >>

\* Option<Builders>: << >> is None, << bs >> is Some(bs); a builder is
\* [ty, vals].  A writer's pending RecordBatch, rb, likewise.
None == << >>
Some(x) == << x >>

RECURSIVE Sum(_)
Sum(ns) == IF ns = << >> THEN 0 ELSE ns[1] + Sum(Tail(ns))

\* A writer that alloc_writer has not created yet.  op is the call in
\* progress or last made, ret what it returned.
NoWriter ==
    [ st |-> "none", schema |-> << >>, arrow_schema |-> << >>, batch_size |-> 0,
      builders |-> None, current_row |-> 0, current_col |-> 0,
      pc |-> "idle", rb |-> None, op |-> "none", ret |-> "none" ]

\* appended: the [col, val] appended, in order; err: some call returned an
\* error or panicked; cut: "no" while no finalize has taken builders to flush,
\* "last" when one has and no consume followed, "mid" when a consume followed;
\* fin: the writer was dropped right after a finalize that returned Ok.
NoHist == [ appended |-> << >>, err |-> FALSE, cut |-> "no", fin |-> FALSE ]

\* A constructor that makes the builders at once.
NewWriterEager(types, arrow, bs) ==
    [ st |-> "live", schema |-> types, arrow_schema |-> arrow, batch_size |-> bs,
      builders |-> Some([i \in 1..Len(types) |-> [ty |-> types[i], vals |-> << >>]]),
      current_row |-> 0, current_col |-> 0,
      pc |-> "idle", rb |-> None, op |-> "none", ret |-> "none" ]

\* ArrowPartitionWriter::new
NewWriter(types, arrow, bs) ==
    [ st |-> "live", schema |-> types, arrow_schema |-> arrow, batch_size |-> bs,
      builders |-> None, current_row |-> 0, current_col |-> 0,
      pc |-> "idle", rb |-> None, op |-> "none", ret |-> "none" ]

\* fn column_count
column_count(wr) == Len(wr.schema)

\* A try_new that does not compare the lengths of the columns.
TryNewAnyLength(fields, columns) ==
    /\ Len(columns) = Len(fields)
    /\ Len(columns) > 0
    /\ \A i \in 1..Len(columns) : columns[i].ty = fields[i].ty

\* RecordBatch::try_new(schema, columns) succeeds: one column per field, of the
\* field's type, all of one length.
TryNewOk(fields, columns) ==
    /\ Len(columns) = Len(fields)
    /\ Len(columns) > 0
    /\ \A i \in 1..Len(columns) : columns[i].ty = fields[i].ty
    /\ \A i, j \in 1..Len(columns) : Len(columns[i].vals) = Len(columns[j].vals)

\* fn allocate: the builders, created on demand; << >> when a realize fails.
allocate(wr) ==
    IF wr.builders # None THEN wr.builders
    ELSE IF \A i \in 1..Len(wr.schema) : RealizeOk(wr.schema[i])
         THEN Some([i \in 1..Len(wr.schema) |-> [ty |-> wr.schema[i], vals |-> << >>]])
         ELSE None

\* A flush that puts the builders back when it fails.
FlushTakenRestoring(wr) ==
    LET columns == wr.builders[1]
        taken == [wr EXCEPT !.builders = None]
    IN  IF \E i \in 1..Len(wr.schema) : ~RealizeOk(wr.schema[i])
        THEN [wr EXCEPT !.ret = "UnsupportedType"]
        ELSE IF ~TryNewOk(wr.arrow_schema, columns)
        THEN [wr EXCEPT !.ret = "ShapeMismatch"]
        ELSE [taken EXCEPT !.rb = Some([arrow_schema |-> wr.arrow_schema,
                                        columns |-> columns]),
                           !.pc = "wait", !.ret = "pending"]

\* fn flush up to the lock: take the builders, finish them, build the batch
\* (FlushTaken: with builders to take).  The writer goes on to acquire the
\* mutex (pc = "wait") or has returned.
FlushTaken(wr) ==
    LET columns == wr.builders[1]
        taken == [wr EXCEPT !.builders = None]
    IN  IF \E i \in 1..Len(wr.schema) : ~RealizeOk(wr.schema[i])
        THEN [taken EXCEPT !.ret = "UnsupportedType"]
        ELSE IF ~TryNewOk(wr.arrow_schema, columns)
        THEN [taken EXCEPT !.ret = "ShapeMismatch"]
        ELSE [taken EXCEPT !.rb = Some([arrow_schema |-> wr.arrow_schema,
                                        columns |-> columns]),
                           !.pc = "wait", !.ret = "pending"]

\* A flush that pushes a batch without columns when there are no builders.
FlushBuildEmpty(wr) ==
    IF wr.builders = None
    THEN [wr EXCEPT !.rb = Some([arrow_schema |-> wr.arrow_schema,
                                 columns |-> << >>]),
                    !.pc = "wait", !.ret = "pending"]
    ELSE FlushTaken(wr)

FlushBuild(wr) ==
    IF wr.builders = None THEN [wr EXCEPT !.ret = "Ok"] ELSE FlushTaken(wr)

\* The cursor after consume's first lines.
Advance(wr) ==
    IF wr.current_col + 1 = column_count(wr)
    THEN [wr EXCEPT !.current_row = wr.current_row + 1, !.current_col = 0]
    ELSE [wr EXCEPT !.current_col = wr.current_col + 1]

\* An append that ignores col and always writes the first builder.
AppendToFirst(builders, col, value) ==
    Some([builders[1] EXCEPT ![1].vals = Append(@, value)])

\* <T as ArrowAssoc>::append(builders[col], value)
AppendTo(builders, col, value) ==
    Some([builders[1] EXCEPT ![col + 1].vals = Append(@, value)])

\* A batch_size test that lets one row too many in.
FlushDueLate(wr) == wr.current_row > wr.batch_size

\* consume's test "flush if exceed batch_size"
FlushDue(wr) == wr.current_row >= wr.batch_size

\* fn consume after the type check: allocate, append, and flush when due.
AppendStep(adv, col, value) ==
    IF allocate(adv) = None THEN [adv EXCEPT !.ret = "UnsupportedType"]
    ELSE LET app == [adv EXCEPT !.builders = AppendTo(allocate(adv), col, value)]
         IN  IF FlushDue(app) THEN FlushBuild(app) ELSE [app EXCEPT !.ret = "Ok"]

\* A consume without the check::<T>() call.
ConsumeStepUnchecked(wr, T, value) ==
    LET col == wr.current_col
        adv == [Advance(wr) EXCEPT !.op = "consume"]
    IN  IF col >= column_count(wr) THEN [adv EXCEPT !.ret = "panic"]
        ELSE AppendStep(adv, col, value)

\* A consume that checks the type before it moves the cursor.
ConsumeStepCheckFirst(wr, T, value) ==
    LET col == wr.current_col
        adv == [Advance(wr) EXCEPT !.op = "consume"]
    IN  IF col >= column_count(wr) THEN [adv EXCEPT !.ret = "panic"]
        ELSE IF ~Check(wr.schema[col + 1], T)
        THEN [wr EXCEPT !.op = "consume", !.ret = "TypeMismatch"]
        ELSE AppendStep(adv, col, value)

\* fn consume, up to the lock of a flush it may call.
ConsumeStep(wr, T, value) ==
    LET col == wr.current_col
        adv == [Advance(wr) EXCEPT !.op = "consume"]
    IN  IF col >= column_count(wr) THEN [adv EXCEPT !.ret = "panic"]
        ELSE IF ~Check(wr.schema[col + 1], T) THEN [adv EXCEPT !.ret = "TypeMismatch"]
        ELSE AppendStep(adv, col, value)

\* Whether a returned value is an error (or a panic).
IsErr(ret) == ret \notin {"Ok", "pending", "none"}

(***************************************************************************)
(* Initial state: ArrowDestination::new_with_batch_size(batch_size).       *)
(***************************************************************************)
NoRet == [op |-> "none", res |-> "none", val |-> << >>]

DestInit(sc, sizes) ==
    /\ schema = SchemaEmpty
    /\ arrow_schema = << >>
    /\ batch_size \in sizes
    /\ data = << >>
    /\ mutex = {}
    /\ poisoned = FALSE
    /\ dest = "live"
    /\ dret = NoRet
    /\ writers = [w \in Writers |-> NoWriter]
    /\ hist = [w \in Writers |-> NoHist]
    /\ acq = << >>
    /\ pushed = << >>
    /\ popped = << >>
    /\ budget = 0
    /\ scope = sc

\* What a parser call returned: fetch_next's (n, last), or produce's value
\* (val; for produce::<Option<T>>, opt, val is the Option returned).
NoPRet == [op |-> "none", res |-> "none", opt |-> FALSE, val |-> None,
           n |-> 0, last |-> FALSE]
FetchRet(res, n, last) ==
    [NoPRet EXCEPT !.op = "fetch_next", !.res = res, !.n = n, !.last = last]
ProduceRet(res, opt, val) ==
    [NoPRet EXCEPT !.op = "produce", !.res = res, !.opt = opt, !.val = val]

\* What a call of the source returned: fetch_metadata's Schema, or the types
\* handed to the reader that reader made.
SrcRet(op, res, sc, types) == [op |-> op, res |-> res, schema |-> sc, types |-> types]

\* BigQuerySource::new: no queries, no names, no types.  schema is names
\* and types, zipped; ret the last call; probed (not program state) tells
\* that fetch_metadata has returned Ok for the present queries.
NoSource == [queries |-> << >>, schema |-> << >>, probed |-> FALSE,
             ret |-> SrcRet("none", "none", << >>, << >>)]

\* The names of the store's tables (and of the parquet files loaded).
TableNames == {"t"}

\* What a call on the connection returned: arg is the schema given (the
\* file's, for roundtrip_of_parquet), lens the row counts of the file's
\* batches, ddl the CREATE TABLE executed, if any, expected and got the two
\* batch lists the assertion of roundtrip_of_parquet compares.
StoreRet(op, res, arg, lens, ddl, expected, got) ==
    [op |-> op, res |-> res, arg |-> arg, lens |-> lens, ddl |-> ddl,
     expected |-> expected, got |-> got]

\* A new, empty database.  A table is its column definitions (name, native
\* type, NOT NULL) and the batches appended to it.
NoStore == [tables |-> [n \in TableNames |-> None],
            ret |-> StoreRet("none", "none", << >>, << >>, None, << >>, << >>)]

\* No cell under conversion.
NoCell == [value |-> << >>, ty |-> "none",
           plain |-> [res |-> "none", val |-> << >>],
           option |-> [res |-> "none", val |-> << >>]]

\* No BigQuery source or parser, and no store, in the run.
NoParser ==
    /\ table = [total_rows |-> 0, page_size |-> 1, nulls |-> FALSE]
    /\ response = [rows |-> None, page_token |-> None]
    /\ parser = [ncols |-> 0, current_row |-> 0, current_col |-> 0, nrows |-> None]
    /\ pret = NoPRet
    /\ produced = << >>
    /\ source = NoSource
    /\ store = NoStore
    /\ cell = NoCell

\* Several writers.
Init == DestInit([writers |-> MaxWriters, calls |-> MaxCalls], 0..MaxBatch) /\ NoParser

\* A single writer, and more calls.
InitOne == DestInit([writers |-> 1, calls |-> MaxCallsOne], 0..MaxBatch) /\ NoParser

(***************************************************************************)
(* The destination's operations.                                           *)
(***************************************************************************)
\* Realize::<FNewField>::realize(dt)?(h): the ArrowSchema's fields.
NewFields(s) == [i \in 1..Len(s) |-> [name |-> s[i].name, ty |-> s[i].ty]]

\* fn set_schema
set_schema(s) ==
    /\ dest = "live"
    /\ budget < scope.calls
    /\ budget' = budget + 1
    /\ schema' = s
    /\ IF \A i \in 1..Len(s) : RealizeOk(s[i].ty)
       THEN /\ arrow_schema' = NewFields(s)
            /\ dret' = [op |-> "set_schema", res |-> "Ok", val |-> << >>]
       ELSE /\ arrow_schema' = arrow_schema
            /\ dret' = [op |-> "set_schema", res |-> "UnsupportedType", val |-> << >>]
    /\ UNCHANGED << batch_size, data, mutex, poisoned, dest, writers, hist, acq,
                    pushed, popped, scope, pvars >>

\* The next writer alloc_writer creates.
NextWriter == Cardinality({w \in Writers : writers[w].st # "none"}) + 1

\* An alloc_writer that makes the writer before it looks at the data order.
alloc_writer_eager(data_order) ==
    /\ dest = "live"
    /\ budget < scope.calls
    /\ budget' = budget + 1
    /\ NextWriter <= scope.writers
    /\ writers' = [writers EXCEPT ![NextWriter] =
                      NewWriter(TypesOf(schema), arrow_schema, batch_size)]
    /\ dret' = IF data_order # "RowMajor"
               THEN [op |-> "alloc_writer", res |-> "UnsupportedDataOrder",
                     val |-> << >>]
               ELSE [op |-> "alloc_writer", res |-> "Ok", val |-> << >>]
    /\ UNCHANGED << schema, arrow_schema, batch_size, data, mutex, poisoned, dest,
                    hist, acq, pushed, popped, scope, pvars >>

\* fn alloc_writer
alloc_writer(data_order) ==
    /\ dest = "live"
    /\ budget < scope.calls
    /\ budget' = budget + 1
    /\ IF data_order # "RowMajor"
       THEN /\ dret' = [op |-> "alloc_writer", res |-> "UnsupportedDataOrder",
                        val |-> << >>]
            /\ UNCHANGED writers
       ELSE /\ NextWriter <= scope.writers
            /\ writers' = [writers EXCEPT ![NextWriter] =
                              NewWriter(TypesOf(schema), arrow_schema, batch_size)]
            /\ dret' = [op |-> "alloc_writer", res |-> "Ok", val |-> << >>]
    /\ UNCHANGED << schema, arrow_schema, batch_size, data, mutex, poisoned, dest,
                    hist, acq, pushed, popped, scope, pvars >>

\* A count of holders that sees only the writers inside a flush.
OutstandingBusy == {w \in Writers : writers[w].st = "live" /\ writers[w].pc # "idle"}

\* Holders of the Arc besides the destination's own.
Outstanding == {w \in Writers : writers[w].st = "live"}

\* A finish that takes the list out of a poisoned mutex.
finish_into_inner_unchecked ==
    /\ dest = "live"
    /\ dest' = "gone"
    /\ dret' = IF Outstanding # {}
               THEN [op |-> "finish", res |-> "NotFreed", val |-> << >>]
               ELSE [op |-> "finish", res |-> "Ok", val |-> data]
    /\ UNCHANGED << schema, arrow_schema, batch_size, data, mutex, poisoned,
                    writers, hist, acq, pushed, popped, budget, scope, pvars >>

\* fn finish: consumes the destination.
finish ==
    /\ dest = "live"
    /\ dest' = "gone"
    /\ dret' = IF Outstanding # {}
               THEN [op |-> "finish", res |-> "NotFreed", val |-> << >>]
               ELSE IF poisoned
               THEN [op |-> "finish", res |-> "MutexPoisoned", val |-> << >>]
               ELSE [op |-> "finish", res |-> "Ok", val |-> data]
    /\ UNCHANGED << schema, arrow_schema, batch_size, data, mutex, poisoned,
                    writers, hist, acq, pushed, popped, budget, scope, pvars >>

\* fn get_one: self.data.lock()
get_one_lock ==
    /\ dest = "live"
    /\ budget < scope.calls
    /\ mutex = {}
    /\ budget' = budget + 1
    /\ IF poisoned
       THEN /\ dret' = [op |-> "get_one", res |-> "MutexPoisoned", val |-> << >>]
            /\ UNCHANGED << dest, mutex >>
       ELSE /\ dest' = "locked"
            /\ mutex' = {0}
            /\ dret' = [op |-> "get_one", res |-> "pending", val |-> << >>]
    /\ UNCHANGED << schema, arrow_schema, batch_size, data, poisoned, writers,
                    hist, acq, pushed, popped, scope, pvars >>

\* A pop that returns the oldest element, not the newest.
PoppedFirst(v) == IF v = << >> THEN None ELSE Some(v[1])

\* A pop that leaves the element it returns in the list.
PopNothing(v) == v

\* Vec::pop
Pop(v) == IF v = << >> THEN << >> ELSE SubSeq(v, 1, Len(v) - 1)
Popped(v) == IF v = << >> THEN None ELSE Some(v[Len(v)])

\* A get_one that returns with the guard still held (the guard is leaked).
get_one_pop_keeping_guard ==
    /\ dest = "locked"
    /\ dest' = "live"
    /\ mutex' = mutex
    /\ data' = Pop(data)
    /\ popped' = popped \o Popped(data)
    /\ dret' = [op |-> "get_one", res |-> "Ok", val |-> Popped(data)]
    /\ UNCHANGED << schema, arrow_schema, batch_size, poisoned, writers, hist,
                    acq, pushed, budget, scope, pvars >>

\* fn get_one: (*guard).pop(), and the guard dropped
get_one_pop ==
    /\ dest = "locked"
    /\ dest' = "live"
    /\ mutex' = {}
    /\ data' = Pop(data)
    /\ popped' = popped \o Popped(data)
    /\ dret' = [op |-> "get_one", res |-> "Ok", val |-> Popped(data)]
    /\ UNCHANGED << schema, arrow_schema, batch_size, poisoned, writers, hist,
                    acq, pushed, budget, scope, pvars >>

(***************************************************************************)
(* The writers' operations.  A writer thread is between calls (pc =        *)
(* "idle"), inside flush before self.data.lock() (pc = "wait"), or inside  *)
(* flush holding the guard (pc = "held").                                  *)
(***************************************************************************)
Callable(w) == writers[w].st = "live" /\ writers[w].pc = "idle"

\* Whether consume::<T> gets as far as appending its value.
Appends(wr, T) ==
    /\ wr.current_col < column_count(wr)
    /\ Check(wr.schema[wr.current_col + 1], T)
    /\ allocate(wr) # None

\* fn consume::<T>(value), to its return or to the lock of its flush
Consume(w, T) ==
    /\ Callable(w)
    /\ budget < scope.calls
    /\ budget' = budget + 1
    /\ LET wr == writers[w]
           value == << w, Len(hist[w].appended) >>
           new == ConsumeStep(wr, T, value)
       IN  /\ writers' = [writers EXCEPT ![w] = new]
           /\ hist' = [hist EXCEPT ![w] =
                [ appended |-> IF Appends(wr, T)
                               THEN Append(@.appended,
                                           [col |-> wr.current_col, val |-> value])
                               ELSE @.appended,
                  err |-> @.err \/ IsErr(new.ret),
                  cut |-> IF @.cut = "no" THEN "no" ELSE "mid",
                  fin |-> FALSE ]]
    /\ UNCHANGED << schema, arrow_schema, batch_size, data, mutex, poisoned, dest,
                    dret, acq, pushed, popped, scope, pvars >>

\* fn finalize, to its return or to the lock of its flush
Finalize(w) ==
    /\ Callable(w)
    /\ LET wr == writers[w]
           new == FlushBuild([wr EXCEPT !.op = "finalize"])
       IN  /\ writers' = [writers EXCEPT ![w] = new]
           /\ hist' = [hist EXCEPT ![w].err = @ \/ IsErr(new.ret),
                                   ![w].cut = IF wr.builders # None /\ @ = "no"
                                              THEN "last" ELSE @]
    /\ UNCHANGED << schema, arrow_schema, batch_size, data, mutex, poisoned, dest,
                    dret, acq, pushed, popped, budget, scope, pvars >>

\* A lock that is granted while another thread holds the mutex.
FlushLockBarging(w) ==
    /\ writers[w].pc = "wait"
    /\ ~poisoned
    /\ writers' = [writers EXCEPT ![w].pc = "held"]
    /\ mutex' = mutex \cup {w}
    /\ acq' = Append(acq, [by |-> w, rb |-> writers[w].rb[1]])
    /\ UNCHANGED << schema, arrow_schema, batch_size, data, poisoned, dest, dret,
                    hist, pushed, popped, budget, scope, pvars >>

\* fn flush: self.data.lock(), which fails on a poisoned mutex
FlushLock(w) ==
    /\ writers[w].pc = "wait"
    /\ mutex = {}
    /\ IF poisoned
       THEN /\ writers' = [writers EXCEPT ![w].pc = "idle", ![w].rb = None,
                                          ![w].ret = "MutexPoisoned"]
            /\ hist' = [hist EXCEPT ![w].err = TRUE]
            /\ UNCHANGED << mutex, acq >>
       ELSE /\ writers' = [writers EXCEPT ![w].pc = "held"]
            /\ mutex' = {w}
            /\ acq' = Append(acq, [by |-> w, rb |-> writers[w].rb[1]])
            /\ UNCHANGED hist
    /\ UNCHANGED << schema, arrow_schema, batch_size, data, poisoned, dest, dret,
                    pushed, popped, budget, scope, pvars >>

\* A push that replaces the list, and one that pushes at the front.
PushReplace(v, rb) == << rb >>
PushFront(v, rb) == << rb >> \o v

\* inner_data.push(rb)
Push(v, rb) == Append(v, rb)

\* fn flush: the push, the guard dropped, the cursor reset, the return
FlushPush(w) ==
    /\ writers[w].pc = "held"
    /\ data' = Push(data, writers[w].rb[1])
    /\ pushed' = Append(pushed, [by |-> w, rb |-> writers[w].rb[1]])
    /\ mutex' = {}
    /\ writers' = [writers EXCEPT ![w].pc = "idle", ![w].rb = None,
                                  ![w].current_row = 0, ![w].current_col = 0,
                                  ![w].ret = "Ok"]
    /\ UNCHANGED << schema, arrow_schema, batch_size, poisoned, dest, dret, hist,
                    acq, popped, budget, scope, pvars >>

\* fn flush: the push panics (Vec capacity overflow) with the guard held;
\* unwinding drops the guard, which poisons the mutex.
FlushPushPanic(w) ==
    /\ writers[w].pc = "held"
    /\ poisoned' = TRUE
    /\ mutex' = {}
    /\ writers' = [writers EXCEPT ![w].pc = "idle", ![w].rb = None,
                                  ![w].ret = "panic"]
    /\ hist' = [hist EXCEPT ![w].err = TRUE]
    /\ UNCHANGED << schema, arrow_schema, batch_size, data, dest, dret, acq,
                    pushed, popped, budget, scope, pvars >>

\* The writer's last call was a finalize that returned Ok.
Finalized(wr) == wr.pc = "idle" /\ wr.op = "finalize" /\ wr.ret = "Ok"

\* The writer is dropped: its builders are discarded, its Arcs released.
Drop(w) ==
    /\ Callable(w)
    /\ writers' = [writers EXCEPT ![w] =
                      [NoWriter EXCEPT !.st = "dropped",
                                       !.schema = writers[w].schema,
                                       !.arrow_schema = writers[w].arrow_schema,
                                       !.batch_size = writers[w].batch_size]]
    /\ hist' = [hist EXCEPT ![w].fin = Finalized(writers[w])]
    /\ UNCHANGED << schema, arrow_schema, batch_size, data, mutex, poisoned, dest,
                    dret, acq, pushed, popped, budget, scope, pvars >>

Next ==
    \/ \E s \in Schemas : set_schema(s)
    \/ \E o \in DataOrders : alloc_writer(o)
    \/ finish
    \/ get_one_lock
    \/ get_one_pop
    \/ \E w \in Writers, T \in ValueTypes : Consume(w, T)
    \/ \E w \in Writers : Finalize(w)
    \/ \E w \in Writers : FlushLock(w)
    \/ \E w \in Writers : FlushPush(w)
    \/ \E w \in Writers : FlushPushPanic(w)
    \/ \E w \in Writers : Drop(w)

Spec == Init /\ [][Next]_vars

\* Fair scheduling: a thread that holds the guard runs on to release it (the
\* push, or the pop, and the drop of the guard), and a flush that waits for
\* the mutex acquires it if the mutex is free again and again.
Fairness ==
    /\ \A w \in Writers : SF_vars(FlushLock(w))
    /\ \A w \in Writers : WF_vars(FlushPush(w) \/ FlushPushPanic(w))
    /\ WF_vars(get_one_pop)

SpecFair == Init /\ [][Next]_vars /\ Fairness

SpecOne == InitOne /\ [][Next]_vars

(***************************************************************************)
(* The BigQuery source parser.  The job's result has total_rows rows of    *)
(* ncols cells; the service delivers it in pages of page_size rows, each   *)
(* response carrying the token of the next page.  A row of a response is   *)
(* written as its index in the result, cell (r, c) holds the value         *)
(* << r, c >>, or null.                                                    *)
(***************************************************************************)
\* Whether cell (r, c) of the result is null.
IsNull(r, c) == table.nulls /\ (r + c) % 2 = 1

\* The rows of page p (from 0).
PageRows(p) ==
    LET first == p * table.page_size
        n == IF table.total_rows - first > table.page_size THEN table.page_size
             ELSE IF table.total_rows > first THEN table.total_rows - first
             ELSE 0
    IN  [i \in 1..n |-> first + i - 1]

\* job.get_query_results with the given page_token: no token asks for the
\* first page; a response without rows has rows: None.
GetQueryResults(page_token) ==
    LET p == IF page_token = None THEN 0 ELSE page_token[1]
    IN  [ rows |-> IF PageRows(p) = << >> THEN None ELSE Some(PageRows(p)),
          page_token |-> IF (p + 1) * table.page_size < table.total_rows
                         THEN Some(p + 1) ELSE None ]

\* BigQuerySourceParser::new on the first response (SourceReader::parser).
InitBQ ==
    /\ DestInit([writers |-> 0, calls |-> MaxParserCalls], {0})
    /\ table \in [total_rows : 0..MaxRows, page_size : 1..MaxPage, nulls : BOOLEAN]
    /\ response = GetQueryResults(None)
    /\ parser \in [ncols : 0..MaxCols, current_row : {0}, current_col : {0},
                    nrows : {None}]
    /\ pret = NoPRet
    /\ produced = << >>
    /\ source = NoSource
    /\ store = NoStore
    /\ cell = NoCell

\* The destination's part of the state.
dvars == << schema, arrow_schema, batch_size, data, mutex, poisoned, dest, dret,
            writers, hist, acq, pushed, popped, scope >>

\* A cursor that moves to the next row after every cell.
next_loc_eager(p) ==
    [p EXCEPT !.current_row = @ + 1,
              !.current_col = (p.current_col + 1) % p.ncols]

\* fn next_loc: the cursor after the call (it returns the one before).
next_loc(p) ==
    [p EXCEPT !.current_row = @ + ((p.current_col + 1) \div p.ncols),
              !.current_col = (p.current_col + 1) % p.ncols]

\* A fetch_next without its assertion.
fetch_next_unasserted ==
    /\ budget < scope.calls
    /\ budget' = budget + 1
    /\ IF parser.nrows = None
       THEN /\ parser' = [parser EXCEPT !.nrows = Some(table.total_rows)]
            /\ pret' = FetchRet("Ok", table.total_rows, TRUE)
       ELSE IF parser.nrows[1] >= parser.current_row
       THEN /\ pret' = FetchRet("Ok", parser.nrows[1] - parser.current_row, TRUE)
            /\ UNCHANGED parser
       ELSE /\ \/ pret' = FetchRet("panic", 0, FALSE)
               \/ pret' = FetchRet("OkWrapped",
                                   parser.current_row - parser.nrows[1], TRUE)
            /\ UNCHANGED parser
    /\ UNCHANGED << table, response, produced, source, store, cell, dvars >>

\* fn fetch_next
fetch_next ==
    /\ budget < scope.calls
    /\ budget' = budget + 1
    /\ IF parser.current_col # 0
       THEN /\ pret' = FetchRet("panic", 0, FALSE)
            /\ UNCHANGED parser
       ELSE IF parser.nrows = None
       THEN /\ parser' = [parser EXCEPT !.nrows = Some(table.total_rows)]
            /\ pret' = FetchRet("Ok", table.total_rows, TRUE)
       ELSE IF parser.nrows[1] >= parser.current_row
       THEN /\ pret' = FetchRet("Ok", parser.nrows[1] - parser.current_row, TRUE)
            /\ UNCHANGED parser
       ELSE \* total_rows - current_row overflows usize: a panic, or the
            \* difference wrapped around ("OkWrapped": the count returned is
            \* the width of usize less n)
            /\ \/ pret' = FetchRet("panic", 0, FALSE)
               \/ pret' = FetchRet("OkWrapped",
                                   parser.current_row - parser.nrows[1], TRUE)
            /\ UNCHANGED parser
    /\ UNCHANGED << table, response, produced, source, store, cell, dvars >>

\* What a produce call is recorded as: its result, the cell it read (row of
\* the result, column), the value, and whether it fetched a page.
Outcome(res, row, col, val, fetched) ==
    [res |-> res, row |-> row, col |-> col, val |-> val, fetched |-> fetched]

\* fn produce for T (opt = FALSE) and for Option<T> (opt = TRUE)
produce(opt) ==
    /\ budget < scope.calls
    /\ budget' = budget + 1
    /\ IF parser.ncols = 0
       THEN \* next_loc divides by ncols
            /\ pret' = ProduceRet("panic", opt, None)
            /\ produced' = Append(produced, Outcome("panic", 0, 0, None, FALSE))
            /\ UNCHANGED << parser, response >>
       ELSE
       LET ridx0 == parser.current_row
           cidx == parser.current_col
           loc == next_loc(parser)
           fetch == response.rows # None /\ ridx0 = Len(response.rows[1])
           resp == IF fetch THEN GetQueryResults(response.page_token) ELSE response
           after == IF fetch THEN [loc EXCEPT !.current_row = 0] ELSE loc
           ridx == IF fetch THEN 0 ELSE ridx0
           Fail(res) == /\ pret' = ProduceRet(res, opt, None)
                        /\ produced' = Append(produced, Outcome(res, ridx, cidx, None, fetch))
       IN  /\ parser' = after
           /\ response' = resp
           /\ IF resp.rows = None THEN Fail("RowsNone")
              ELSE IF ridx >= Len(resp.rows[1]) THEN Fail("panic")
              ELSE LET row == resp.rows[1][ridx + 1]
                       val == IF IsNull(row, cidx) THEN None ELSE Some(<< row, cidx >>)
                   IN  IF val = None /\ ~opt
                       THEN /\ pret' = ProduceRet("ValueNone", opt, None)
                            /\ produced' = Append(produced,
                                                 Outcome("ValueNone", row, cidx, None,
                                                         fetch))
                       ELSE /\ pret' = ProduceRet("Ok", opt, val)
                            /\ produced' = Append(produced,
                                                 Outcome("Ok", row, cidx, val, fetch))
    /\ UNCHANGED << table, source, store, cell, dvars >>

NextBQ ==
    \/ fetch_next
    \/ \E opt \in BOOLEAN : produce(opt)

SpecBQ == InitBQ /\ [][NextBQ]_vars

(***************************************************************************)
(* The conversion of one cell by Produce<T> and by Produce<Option<T>>: the *)
(* part of produce after the cell has been located.  A cell's value is     *)
(* None (null) or a JSON value, which is a string or not; a text stands    *)
(* for what str::parse and chrono's parse_from_str make of it.             *)
(***************************************************************************)
\* The types T with an impl Produce<T> and an impl Produce<Option<T>>.
ProducedTypes == {"i64", "f64", "String", "bool", "NaiveDate", "NaiveDateTime",
                  "NaiveTime", "DateTime<Utc>"}

\* The strings a cell may hold.
Texts == {"2", "-1", "-0.5", "1.5", "true", "false", "x", "2020-01-02",
          "2020-01-02T03:04:05", "03:04:05"}

\* TableCell.value: Option<serde_json::Value>
CellValues ==
    {None, Some([str |-> FALSE, text |-> ""])}
        \cup {Some([str |-> TRUE, text |-> t]) : t \in Texts}

\* s.parse::<i64>()
ParseI64(s) ==
    IF s = "2" THEN Some(2) ELSE IF s = "-1" THEN Some(-1) ELSE None

\* s.parse::<f64>(), the number in tenths
ParseF64(s) ==
    IF s = "2" THEN Some(20) ELSE IF s = "-1" THEN Some(-10)
    ELSE IF s = "-0.5" THEN Some(-5) ELSE IF s = "1.5" THEN Some(15)
    ELSE None

\* s.parse() for i64, f64 and String; the match on "true" and "false";
\* parse_from_str with the format of the type
ParseAs(T, s) ==
    IF T = "i64" THEN ParseI64(s)
    ELSE IF T = "f64" THEN ParseF64(s)
    ELSE IF T = "String" THEN Some(s)
    ELSE IF T = "bool" THEN (IF s = "true" THEN Some(TRUE)
                             ELSE IF s = "false" THEN Some(FALSE) ELSE None)
    ELSE IF T = "NaiveDate" THEN (IF s = "2020-01-02" THEN Some(s) ELSE None)
    ELSE IF T = "NaiveDateTime"
    THEN (IF s = "2020-01-02T03:04:05" THEN Some(s) ELSE None)
    ELSE IF s = "03:04:05" THEN Some(s) ELSE None

NanosPerSec == 1000000000
NanosPerTenth == 100000000

\* i64's / and %: the quotient is truncated towards zero and the remainder
\* has the sign of the dividend.
TruncDiv(a, b) == IF a >= 0 THEN a \div b ELSE -((-a) \div b)
TruncRem(a, b) == a - b * TruncDiv(a, b)

\* (x as u32) for an i64 x above -2^32: x itself, or x + 2^32 when x is
\* negative (wrapped).
AsU32(x) == [wrapped |-> x < 0, low |-> x]

\* NaiveDateTime::from_timestamp_opt: None when nsecs is 2_000_000_000 or
\* more, which a wrapped nsecs always is (low + 2^32 with low > -2^31).
from_timestamp_opt(secs, nsecs) ==
    IF nsecs.wrapped \/ nsecs.low >= 2 * NanosPerSec THEN None
    ELSE Some([secs |-> secs, nsecs |-> nsecs.low])

\* (v.parse::<f64>()? * 1e9) as i64, split into secs and nsecs, and the
\* NaiveDateTime of them; None when the text is no f64.
TimestampOf(s) ==
    IF ParseF64(s) = None THEN None
    ELSE LET timestamp_ns == ParseF64(s)[1] * NanosPerTenth
             secs == TruncDiv(timestamp_ns, NanosPerSec)
             nsecs == AsU32(TruncRem(timestamp_ns, NanosPerSec))
         IN  Some(from_timestamp_opt(secs, nsecs))

\* What a conversion returned: val is Some(the value returned) when res is
\* "Ok" (for Produce<Option<T>> the value returned is itself an Option).
Conv(res, val) == [res |-> res, val |-> val]
NoConv == Conv("none", None)

\* Produce<T>::produce on the cell's value
ProduceT(T, value) ==
    IF value = None THEN Conv("ValueNone", None)
    ELSE IF ~value[1].str THEN Conv("NotStr", None)
    ELSE IF T = "DateTime<Utc>"
    THEN (IF TimestampOf(value[1].text) = None THEN Conv("ParseFloatError", None)
          ELSE IF TimestampOf(value[1].text)[1] = None
          THEN Conv("FromTimestampNone", None)
          ELSE Conv("Ok", TimestampOf(value[1].text)[1]))
    ELSE IF ParseAs(T, value[1].text) = None THEN Conv("CannotProduce", None)
    ELSE Conv("Ok", ParseAs(T, value[1].text))

\* Produce<Option<T>>::produce on the cell's value
ProduceOptionT(T, value) ==
    IF value = None THEN Conv("Ok", Some(None))
    ELSE IF ~value[1].str THEN Conv("NotStr", None)
    ELSE IF T = "DateTime<Utc>"
    THEN (IF TimestampOf(value[1].text) = None THEN Conv("ParseFloatError", None)
          ELSE Conv("Ok", Some(TimestampOf(value[1].text)[1])))
    ELSE IF ParseAs(T, value[1].text) = None THEN Conv("CannotProduce", None)
    ELSE Conv("Ok", Some(ParseAs(T, value[1].text)))

\* A cell of a column of type ty, which two parsers over the same response
\* are about to convert, one with produce::<T>, one with produce::<Option<T>>.
InitCell ==
    /\ DestInit([writers |-> 0, calls |-> 0], {0})
    /\ table = [total_rows |-> 0, page_size |-> 1, nulls |-> FALSE]
    /\ response = [rows |-> None, page_token |-> None]
    /\ parser = [ncols |-> 0, current_row |-> 0, current_col |-> 0, nrows |-> None]
    /\ pret = NoPRet
    /\ produced = << >>
    /\ source = NoSource
    /\ store = NoStore
    /\ cell \in [value : CellValues, ty : ProducedTypes, plain : {NoConv},
                 option : {NoConv}]

\* produce::<T>() reaches the cell
produce_plain ==
    /\ cell.plain = NoConv
    /\ cell' = [cell EXCEPT !.plain = ProduceT(cell.ty, cell.value)]
    /\ UNCHANGED << table, response, parser, pret, produced, source, store,
                    budget, dvars >>

\* produce::<Option<T>>() reaches the cell
produce_option ==
    /\ cell.option = NoConv
    /\ cell' = [cell EXCEPT !.option = ProduceOptionT(cell.ty, cell.value)]
    /\ UNCHANGED << table, response, parser, pret, produced, source, store,
                    budget, dvars >>

NextCell ==
    \/ produce_plain
    \/ produce_option

SpecCell == InitCell /\ [][NextCell]_vars

(***************************************************************************)
(* The BigQuery source.  A partition query is written as its name; the     *)
(* service answers its LIMIT 1 probe with a table schema, or fails.        *)
(***************************************************************************)
Queries == {"q1", "q2", "bad"}

\* The answer to the probe of query q: Some(fields), or None when
\* limit1_query or job.query fails or the response carries no schema.
ProbeOf(q) ==
    IF q = "q1" THEN Some(<< [name |-> "x", ty |-> "Int64"] >>)
    ELSE IF q = "q2" THEN Some(<< [name |-> "x", ty |-> "Int64"],
                                  [name |-> "y", ty |-> "String"] >>)
    ELSE None

\* The lists set_queries is called with.
QueryLists == UNION {[1..n -> Queries] : n \in 0..MaxQueries}

InitSrc ==
    /\ DestInit([writers |-> 0, calls |-> MaxSourceCalls], {0})
    /\ NoParser

\* fn set_queries
set_queries(qs) ==
    /\ budget < scope.calls
    /\ budget' = budget + 1
    /\ source' = [source EXCEPT !.queries = qs, !.probed = FALSE,
                                !.ret = SrcRet("set_queries", "Ok", << >>, << >>)]
    /\ UNCHANGED << table, response, parser, pret, produced, store, cell, dvars >>

\* The loop of fetch_metadata over queries qs, from names and types sc:
\* the names and types it leaves, and whether every probe succeeded.
RECURSIVE ProbeAll(_, _)
ProbeAll(qs, sc) ==
    IF qs = << >> THEN [schema |-> sc, ok |-> TRUE]
    ELSE IF ProbeOf(qs[1]) = None THEN [schema |-> sc, ok |-> FALSE]
    ELSE ProbeAll(Tail(qs), ProbeOf(qs[1])[1])

\* fn fetch_metadata
fetch_metadata ==
    /\ budget < scope.calls
    /\ budget' = budget + 1
    /\ IF source.queries = << >>
       THEN source' = [source EXCEPT !.probed = FALSE,
                                     !.ret = SrcRet("fetch_metadata", "panic",
                                                   << >>, << >>)]
       ELSE LET r == ProbeAll(source.queries, source.schema)
            IN  source' = [source EXCEPT
                    !.schema = r.schema,
                    !.probed = r.ok,
                    !.ret = IF r.ok
                            THEN SrcRet("fetch_metadata", "Ok", r.schema, << >>)
                            ELSE SrcRet("fetch_metadata", "Err", << >>, << >>)]
    /\ UNCHANGED << table, response, parser, pret, produced, store, cell, dvars >>

\* The source's DATA_ORDERS.
SourceDataOrders == {"RowMajor"}

\* fn reader: the reader is handed self.types.
reader(query, data_order) ==
    /\ budget < scope.calls
    /\ budget' = budget + 1
    /\ source' = [source EXCEPT !.ret =
                      IF data_order # "RowMajor"
                      THEN SrcRet("reader", "UnsupportedDataOrder", << >>, << >>)
                      ELSE SrcRet("reader", "Ok", << >>, TypesOf(source.schema))]
    /\ UNCHANGED << table, response, parser, pret, produced, store, cell, dvars >>

NextSrc ==
    \/ \E qs \in QueryLists : set_queries(qs)
    \/ fetch_metadata
    \/ \E q \in Queries, o \in DataOrders : reader(q, o)

SpecSrc == InitSrc /\ [][NextSrc]_vars

(***************************************************************************)
(* The DuckDB store (src/connector_arrow/src/duckdb).  An Arrow DataType   *)
(* is written [kind, unit, tz]: unit and tz matter for Timestamp only (tz  *)
(* tells whether a time zone is given).                                    *)
(***************************************************************************)
TimeUnits == {"Second", "Millisecond", "Microsecond", "Nanosecond"}

DT(k) == [kind |-> k, unit |-> "-", tz |-> FALSE]
Timestamp(u, z) == [kind |-> "Timestamp", unit |-> u, tz |-> z]

\* The variants ty_from_arrow answers with unimplemented!(), and with todo!().
UnimplementedKinds ==
    {"Date32", "Date64", "Time32", "Time64", "Duration", "Interval", "List",
     "FixedSizeList", "LargeList", "Struct", "Union", "Dictionary",
     "Decimal128", "Decimal256", "Map", "RunEndEncoded"}
TodoKinds == {"BinaryView", "Utf8View", "ListView", "LargeListView"}

\* The variants of DataType other than Timestamp.
PlainKinds ==
    {"Null", "Boolean", "Int8", "Int16", "Int32", "Int64", "UInt8", "UInt16",
     "UInt32", "UInt64", "Float16", "Float32", "Float64", "Binary",
     "FixedSizeBinary", "LargeBinary", "Utf8", "LargeUtf8"}
        \cup UnimplementedKinds \cup TodoKinds

DataTypes == {DT(k) : k \in PlainKinds}
                 \cup {Timestamp(u, z) : u \in TimeUnits, z \in BOOLEAN}

\* A ty_from_arrow that stores every timestamp as TIMESTAMP.
ty_from_arrow_timestamps(data_type) ==
    LET k == data_type.kind
    IN  CASE k = "Null" -> "BIGINT"
          [] k = "Boolean" -> "BOOLEAN"
          [] k = "Int8" -> "TINYINT"
          [] k = "Int16" -> "SMALLINT"
          [] k = "Int32" -> "INTEGER"
          [] k = "Int64" -> "BIGINT"
          [] k = "UInt8" -> "UTINYINT"
          [] k = "UInt16" -> "USMALLINT"
          [] k = "UInt32" -> "UINTEGER"
          [] k = "UInt64" -> "UBIGINT"
          [] k = "Float16" -> "REAL"
          [] k = "Float32" -> "REAL"
          [] k = "Float64" -> "DOUBLE"
          [] k = "Timestamp" -> "TIMESTAMP"
          [] k \in {"Binary", "FixedSizeBinary", "LargeBinary"} -> "BLOB"
          [] k \in {"Utf8", "LargeUtf8"} -> "VARCHAR"
          [] k \in UnimplementedKinds -> "unimplemented!"
          [] k \in TodoKinds -> "todo!"

\* fn ty_from_arrow: the native type's name; "unimplemented!" and "todo!"
\* stand for the panic of that macro.
ty_from_arrow(data_type) ==
    LET k == data_type.kind
        unit == data_type.unit
    IN  CASE k = "Null" -> "BIGINT"
          [] k = "Boolean" -> "BOOLEAN"
          [] k = "Int8" -> "TINYINT"
          [] k = "Int16" -> "SMALLINT"
          [] k = "Int32" -> "INTEGER"
          [] k = "Int64" -> "BIGINT"
          [] k = "UInt8" -> "UTINYINT"
          [] k = "UInt16" -> "USMALLINT"
          [] k = "UInt32" -> "UINTEGER"
          [] k = "UInt64" -> "UBIGINT"
          [] k = "Float16" -> "REAL"
          [] k = "Float32" -> "REAL"
          [] k = "Float64" -> "DOUBLE"
          [] k = "Timestamp" /\ unit = "Nanosecond" -> "BIGINT"
          [] k = "Timestamp" /\ unit = "Microsecond" -> "TIMESTAMP"
          [] k = "Timestamp" /\ unit = "Millisecond" -> "BIGINT"
          [] k = "Timestamp" /\ unit = "Second" -> "BIGINT"
          [] k \in {"Binary", "FixedSizeBinary", "LargeBinary"} -> "BLOB"
          [] k \in {"Utf8", "LargeUtf8"} -> "VARCHAR"
          [] k \in UnimplementedKinds -> "unimplemented!"
          [] k \in TodoKinds -> "todo!"

\* The call panics.
IsPanic(ty) == ty \in {"unimplemented!", "todo!"}

\* The fields of the schemas used: field i is named "c<i>".
ColumnNames == << "c1", "c2" >>
FieldsAt(i) == {[name |-> ColumnNames[i], data_type |-> t, nullable |-> n] :
                    t \in DataTypes, n \in BOOLEAN}

\* The types a second column is given.
SecondTypes == {DT("Int64"), DT("Null"), DT("Date32")}

\* The schemas table_create is called with, of zero, one and two fields.
DuckSchemas ==
    {<< >>} \cup {<< f >> : f \in FieldsAt(1)}
            \cup {<< f, g >> : f \in FieldsAt(1),
                               g \in {h \in FieldsAt(2) : h.data_type \in SecondTypes}}

\* table_create: one column definition, "{name} {ty}{not_null}".
ColumnDef(field) ==
    [name |-> field.name,
     ty |-> ty_from_arrow(field.data_type),
     not_null |-> ~(field.nullable \/ field.data_type.kind = "Null")]

\* self.inner.execute of a CREATE TABLE statement: the tables afterwards
\* and the result.  The engine refuses a table that exists, and one without
\* columns.
ExecuteCreate(tables, name, column_defs) ==
    IF tables[name] # None THEN [tables |-> tables, res |-> "TableExists"]
    ELSE IF column_defs = << >> THEN [tables |-> tables, res |-> "Connector"]
    ELSE [tables |-> [tables EXCEPT ![name] =
                         Some([cols |-> column_defs, batches |-> << >>])],
          res |-> "Ok"]

\* fn table_create: the tables afterwards, the result, the DDL executed.
TableCreate(tables, name, sch) ==
    IF \E i \in 1..Len(sch) : IsPanic(ty_from_arrow(sch[i].data_type))
    THEN [tables |-> tables, res |-> "panic", ddl |-> None]
    ELSE LET column_defs == [i \in 1..Len(sch) |-> ColumnDef(sch[i])]
             e == ExecuteCreate(tables, name, column_defs)
         IN  [tables |-> e.tables, res |-> e.res,
              ddl |-> Some([create |-> name, column_defs |-> column_defs])]

\* fn table_drop
TableDrop(tables, name) ==
    IF tables[name] = None THEN [tables |-> tables, res |-> "TableNonexistent"]
    ELSE [tables |-> [tables EXCEPT ![name] = None], res |-> "Ok"]

InitDuck ==
    /\ DestInit([writers |-> 0, calls |-> MaxStoreCalls], {0})
    /\ NoParser

\* SchemaEdit::table_create
table_create(name, sch) ==
    /\ budget < scope.calls
    /\ budget' = budget + 1
    /\ LET c == TableCreate(store.tables, name, sch)
       IN  store' = [tables |-> c.tables,
                     ret |-> StoreRet("table_create", c.res, sch, << >>, c.ddl,
                                      << >>, << >>)]
    /\ UNCHANGED << table, response, parser, pret, produced, source, cell, dvars >>

\* SchemaEdit::table_drop
table_drop(name) ==
    /\ budget < scope.calls
    /\ budget' = budget + 1
    /\ LET d == TableDrop(store.tables, name)
       IN  store' = [tables |-> d.tables,
                     ret |-> StoreRet("table_drop", d.res, << >>, << >>, None,
                                      << >>, << >>)]
    /\ UNCHANGED << table, response, parser, pret, produced, source, cell, dvars >>

(***************************************************************************)
(* The round trip of a parquet file through the store                      *)
(* (src/connector_arrow/tests/it/util.rs).  A file is its name, its schema *)
(* and the row counts of the batches its reader yields; a RecordBatch is   *)
(* its fields and its columns, an array its data_type and its values; the  *)
(* value of a cell is the number of its row in the file, -1 is null.       *)
(***************************************************************************)
\* The types of the first column of the files loaded.
FileTypes == {DT("Int64"), DT("Float16"), DT("Null"), DT("Date32"),
              Timestamp("Nanosecond", FALSE), Timestamp("Microsecond", TRUE)}

FileSchemas ==
    {<< f >> : f \in {h \in FieldsAt(1) : h.data_type \in FileTypes}}
        \cup {<< [name |-> "c1", data_type |-> DT("Int64"), nullable |-> FALSE],
                 [name |-> "c2", data_type |-> t, nullable |-> TRUE] >> :
                    t \in {DT("Int64"), DT("Null")}}

Files == [name : TableNames, sch : FileSchemas,
          lens : UNION {[1..n -> 1..MaxFileRows] : n \in 0..MaxFileBatches}]

CellValue(field, row) ==
    IF field.data_type.kind = "Null" \/ (field.nullable /\ row % 2 = 0)
    THEN -1 ELSE row

\* ParquetRecordBatchReader, collected: the batches of the file.
FileBatches(file) ==
    [i \in 1..Len(file.lens) |->
        [fields |-> file.sch,
         columns |-> [c \in 1..Len(file.sch) |->
             [data_type |-> file.sch[c].data_type,
              vals |-> [r \in 1..file.lens[i] |->
                           CellValue(file.sch[c],
                                     Sum(SubSeq(file.lens, 1, i - 1)) + r)]]]]]

\* conn.append(table_name), appender.append(batch) for every batch, finish:
\* the table keeps the values of each batch, column by column.
AppendAll(tables, name, batches) ==
    [tables EXCEPT ![name] =
        Some([@[1] EXCEPT !.batches =
                 @ \o [i \in 1..Len(batches) |->
                          [c \in 1..Len(batches[i].columns) |->
                              batches[i].columns[c].vals]]])]

\* The Arrow type the engine returns a column of a native type as.
ReadBack(ty) ==
    CASE ty = "BOOLEAN" -> DT("Boolean")
      [] ty = "TINYINT" -> DT("Int8")
      [] ty = "SMALLINT" -> DT("Int16")
      [] ty = "INTEGER" -> DT("Int32")
      [] ty = "BIGINT" -> DT("Int64")
      [] ty = "UTINYINT" -> DT("UInt8")
      [] ty = "USMALLINT" -> DT("UInt16")
      [] ty = "UINTEGER" -> DT("UInt32")
      [] ty = "UBIGINT" -> DT("UInt64")
      [] ty = "REAL" -> DT("Float32")
      [] ty = "DOUBLE" -> DT("Float64")
      [] ty = "TIMESTAMP" -> Timestamp("Microsecond", FALSE)
      [] ty = "BLOB" -> DT("Binary")
      [] ty = "VARCHAR" -> DT("Utf8")

\* Column c of the stored batches bs, end to end.
RECURSIVE ConcatVals(_, _)
ConcatVals(bs, c) ==
    IF bs = << >> THEN << >> ELSE bs[1][c] \o ConcatVals(Tail(bs), c)

\* conn.query("SELECT * FROM ..."), stmt.start(()), reader.collect(): the
\* batches DuckDBReader::next yields.  The source does not fix whether the
\* engine returns the rows in the batches they were appended in or in one
\* batch (chunking), nor whether it reports a NOT NULL column as
\* non-nullable (flags): both are left open.
QueryAll(tbl, chunking, flags) ==
    LET fields == [c \in 1..Len(tbl.cols) |->
                      [name |-> tbl.cols[c].name,
                       data_type |-> ReadBack(tbl.cols[c].ty),
                       nullable |-> flags = "nullable" \/ ~tbl.cols[c].not_null]]
        Batch(vals) == [fields |-> fields,
                        columns |-> [c \in 1..Len(fields) |->
                                        [data_type |-> fields[c].data_type,
                                         vals |-> vals[c]]]]
    IN  IF chunking = "appended"
        THEN [i \in 1..Len(tbl.batches) |-> Batch(tbl.batches[i])]
        ELSE IF tbl.batches = << >> THEN << >>
        ELSE << Batch([c \in 1..Len(fields) |-> ConcatVals(tbl.batches, c)]) >>

\* arrow::compute::cast: the array as one of type new_ty (row numbers and
\* nulls are kept by every cast made here).
cast(col_array, new_ty) == [data_type |-> new_ty, vals |-> col_array.vals]

\* fn cast_batches; coerce_ty is a function from DataTypes to Option.
cast_batches(batches, coerce_ty) ==
    [i \in 1..Len(batches) |->
        [fields |-> [c \in 1..Len(batches[i].fields) |->
                        LET f == batches[i].fields[c]
                        IN  IF coerce_ty[f.data_type] = None THEN f
                            ELSE [f EXCEPT !.data_type = coerce_ty[f.data_type][1]]],
         columns |-> [c \in 1..Len(batches[i].columns) |->
                        LET col_array == batches[i].columns[c]
                        IN  IF coerce_ty[col_array.data_type] = None THEN col_array
                            ELSE cast(col_array, coerce_ty[col_array.data_type][1])]]]

\* The coerce_ty functions given: none at all, and the one that names the
\* type each mapped type comes back as.
CoerceNothing == [t \in DataTypes |-> None]
CoerceAsStored ==
    [t \in DataTypes |->
        IF IsPanic(ty_from_arrow(t)) \/ ReadBack(ty_from_arrow(t)) = t THEN None
        ELSE Some(ReadBack(ty_from_arrow(t)))]
CoerceTys == {CoerceNothing, CoerceAsStored}

\* fn roundtrip_of_parquet, with load_parquet_if_not_exists: res is "Ok"
\* when it returns and "panic" when an unwrap, table_create or the final
\* assert_eq panics.
roundtrip_of_parquet(file, coerce_ty) ==
    /\ budget < scope.calls
    /\ budget' = budget + 1
    /\ LET arrow_file == FileBatches(file)
           c == TableCreate(store.tables, file.name, file.sch)
           Panic(tables, ddl) ==
               store' = [tables |-> tables,
                         ret |-> StoreRet("roundtrip", "panic", file.sch, file.lens,
                                          ddl, << >>, << >>)]
       IN  IF arrow_file = << >> THEN Panic(store.tables, None)
           ELSE IF c.res \in {"panic", "Connector"} THEN Panic(c.tables, c.ddl)
           ELSE \E chunking \in {"appended", "merged"},
                   flags \in {"declared", "nullable"} :
                LET loaded == IF c.res = "TableExists" THEN store.tables
                              ELSE AppendAll(c.tables, file.name, arrow_file)
                    arrow_table == QueryAll(loaded[file.name][1], chunking, flags)
                    dropped == TableDrop(loaded, file.name)
                    arrow_file_coerced == cast_batches(arrow_file, coerce_ty)
                IN  store' = [tables |-> dropped.tables,
                              ret |-> StoreRet("roundtrip",
                                               IF arrow_file_coerced = arrow_table
                                               THEN "Ok" ELSE "panic",
                                               file.sch, file.lens, c.ddl,
                                               arrow_file_coerced, arrow_table)]
    /\ UNCHANGED << table, response, parser, pret, produced, source, cell, dvars >>

NextDuck ==
    \/ \E name \in TableNames, sch \in DuckSchemas : table_create(name, sch)
    \/ \E name \in TableNames : table_drop(name)
    \/ \E file \in Files, coerce_ty \in CoerceTys : roundtrip_of_parquet(file, coerce_ty)

SpecDuck == InitDuck /\ [][NextDuck]_vars

(***************************************************************************)
(* Derived quantities used by the properties.                              *)
(***************************************************************************)
\* RecordBatch::num_rows
NumRows(b) == IF Len(b.columns) = 0 THEN 0 ELSE Len(b.columns[1].vals)

\* The batches writer w pushed, in push order.
PushedBy(w) ==
    LET ByW(e) == e.by = w
        sel == SelectSeq(pushed, ByW)
    IN  [i \in 1..Len(sel) |-> sel[i].rb]

Lens(bs) == [i \in 1..Len(bs) |-> NumRows(bs[i])]

\* Column c (from 0) of the concatenation of the batches bs.
RECURSIVE ConcatCol(_, _)
ConcatCol(bs, c) ==
    IF bs = << >> THEN << >>
    ELSE (IF c < Len(bs[1].columns) THEN bs[1].columns[c + 1].vals ELSE << >>)
         \o ConcatCol(Tail(bs), c)

\* The values writer w appended to column c (from 0), in consumption order.
ConsumedCol(w, c) ==
    LET InC(e) == e.col = c
        sel == SelectSeq(hist[w].appended, InC)
    IN  [i \in 1..Len(sel) |-> sel[i].val]

\* The complete rows writer w consumed.
Rows(w) ==
    IF column_count(writers[w]) = 0 THEN 0
    ELSE Len(hist[w].appended) \div column_count(writers[w])

WholeRows(w) ==
    \/ column_count(writers[w]) = 0
    \/ Len(hist[w].appended) % column_count(writers[w]) = 0

Allocated == {w \in Writers : writers[w].st # "none"}

\* Writer w made its calls without an error and its last one was a finalize.
CleanlyFinalized(w) ==
    /\ ~hist[w].err
    /\ \/ writers[w].st = "live" /\ Finalized(writers[w])
       \/ writers[w].st = "dropped" /\ hist[w].fin

FinishOk == dret.op = "finish" /\ dret.res = "Ok"

\* ceil(R/B) batch lengths: floor(R/B) times B, then R mod B if not 0.
ExpectedLens(R, B) ==
    [i \in 1..((R + B - 1) \div B) |-> IF i <= R \div B THEN B ELSE R % B]

(***************************************************************************)
(* C1.  Every RecordBatch pushed to the output list has all its columns of *)
(* one length, and that length is at most batch_size, for every            *)
(* batch_size new_with_batch_size accepts.                                 *)
(***************************************************************************)
C1_RectangularBatches ==
    \A i \in 1..Len(pushed) :
        LET b == pushed[i].rb
        IN  \A c, d \in 1..Len(b.columns) :
                /\ Len(b.columns[c].vals) = Len(b.columns[d].vals)
                /\ Len(b.columns[c].vals) <= batch_size

(***************************************************************************)
(* C2.  A writer that consumes R complete rows with batch_size B >= 1,     *)
(* without error and without a flushing finalize in between, and is then   *)
(* finalized has pushed exactly ceil(R/B) batches: floor(R/B) of B rows    *)
(* and then one of R mod B rows when that is not 0; and finish, with that  *)
(* single writer and no get_one, returns batches of exactly these lengths. *)
(***************************************************************************)
C2_Case(w) ==
    /\ CleanlyFinalized(w)
    /\ hist[w].cut # "mid"
    /\ WholeRows(w)
    /\ batch_size >= 1

C2_BatchCount ==
    \A w \in Writers :
        C2_Case(w) =>
            /\ Lens(PushedBy(w)) = ExpectedLens(Rows(w), writers[w].batch_size)
            /\ (FinishOk /\ popped = << >> /\ Allocated = {w})
                   => Lens(dret.val) = ExpectedLens(Rows(w), writers[w].batch_size)

\* Three rows with batch_size 2: a full batch and a short one.
C2_Witness ==
    \E w \in Writers :
        /\ C2_Case(w)
        /\ Rows(w) = 3
        /\ writers[w].batch_size = 2
        /\ Len(PushedBy(w)) = 2

(***************************************************************************)
(* C3.  When every writer allocated has consumed only complete rows        *)
(* without error, was finalized and then dropped, and no get_one took a    *)
(* batch away, the batches finish returns hold as many rows as the writers *)
(* consumed in total, and every value consumed occurs in them exactly      *)
(* once, in the column it was consumed for: in every interleaving.         *)
(***************************************************************************)
\* How often value v occurs in column c of the batches bs.
Count(bs, c, v) ==
    Cardinality({k \in 1..Len(ConcatCol(bs, c)) : ConcatCol(bs, c)[k] = v})

C3_Case ==
    /\ FinishOk
    /\ popped = << >>
    /\ \A w \in Allocated : CleanlyFinalized(w) /\ WholeRows(w)

C3_RowConservation ==
    C3_Case =>
        /\ Sum(Lens(dret.val)) = Sum([w \in Writers |-> Rows(w)])
        /\ \A w \in Allocated : \A k \in 1..Len(hist[w].appended) :
               Count(dret.val, hist[w].appended[k].col, hist[w].appended[k].val) = 1

\* Two writers, each with a row consumed, and finish returned both rows.
C3_Witness ==
    /\ C3_Case
    /\ Allocated = Writers
    /\ \A w \in Writers : Rows(w) >= 1
    /\ Len(dret.val) >= 2

(***************************************************************************)
(* C4.  While a writer makes its calls without error, the k-th value it    *)
(* consumes (k from 0) is appended to the builder of column k mod ncols,   *)
(* and for every column the batches the writer pushed, in push order,      *)
(* followed by the batch it is about to push and by its builders, hold     *)
(* exactly the values consumed for that column, in consumption order; once *)
(* the writer is finalized the pushed batches alone do.                    *)
(***************************************************************************)
\* Column c of what writer w holds and has not pushed yet.
Held(w, c) ==
    LET wr == writers[w]
    IN  (IF wr.rb = None THEN << >> ELSE ConcatCol(wr.rb, c))
        \o (IF wr.builders = None THEN << >> ELSE wr.builders[1][c + 1].vals)

C4_RowMajorOrder ==
    \A w \in Allocated :
        ~hist[w].err =>
            LET n == column_count(writers[w])
            IN  /\ \A k \in 0..(Len(hist[w].appended) - 1) :
                       hist[w].appended[k + 1].col = k % n
                /\ \A c \in 0..(n - 1) :
                       /\ writers[w].st = "live" =>
                              ConcatCol(PushedBy(w), c) \o Held(w, c) = ConsumedCol(w, c)
                       /\ CleanlyFinalized(w) =>
                              ConcatCol(PushedBy(w), c) = ConsumedCol(w, c)

\* Two rows of two columns, pushed as two batches.
C4_Witness ==
    \E w \in Writers :
        /\ CleanlyFinalized(w)
        /\ column_count(writers[w]) = 2
        /\ Len(hist[w].appended) = 4
        /\ Len(PushedBy(w)) = 2

(***************************************************************************)
(* C5.  For every ncols >= 1 and every page size, the first                *)
(* total_rows * ncols produce calls of a parser on which fetch_next has    *)
(* been called return the cells of the result in row-major order, each     *)
(* exactly once: the k-th call (from 0) returns cell                       *)
(* (k div ncols, k mod ncols), across page boundaries too.                 *)
(***************************************************************************)
C5_RowMajorOnce ==
    (parser.ncols >= 1 /\ parser.nrows # None) =>
        \A k \in 0..(Len(produced) - 1) :
            k < table.total_rows * parser.ncols =>
                /\ produced[k + 1].row = k \div parser.ncols
                /\ produced[k + 1].col = k % parser.ncols
                /\ produced[k + 1].res \in {"Ok", "ValueNone"}

(***************************************************************************)
(* C6.  A finish call made while a writer handed out by alloc_writer has   *)
(* not been dropped fails with "Partitions are not freed" and returns no   *)
(* batches; a finish call made when every writer has been dropped and the  *)
(* mutex is not poisoned returns Ok.                                       *)
(***************************************************************************)
C6_FinishOutstanding ==
    [][(dest = "live" /\ dest' = "gone") =>
          /\ (\E w \in Writers : writers[w].st = "live") =>
                 (dret'.res = "NotFreed" /\ dret'.val = << >>)
          /\ ((\A w \in Writers : writers[w].st # "live") /\ ~poisoned) =>
                 dret'.res = "Ok"]_vars

\* finish has failed with a writer alive that is between calls, and with
\* batches in the output list.
C6_Witness ==
    /\ dret.op = "finish" /\ dret.res = "NotFreed"
    /\ data # << >>
    /\ \E w \in Writers : writers[w].st = "live" /\ writers[w].pc = "idle"

(***************************************************************************)
(* C7.  finish requires every writer to have been finalized as well as     *)
(* dropped: when it returns Ok, no writer was dropped with consumed values *)
(* that were never pushed, so every value a writer consumed is in a batch  *)
(* that was pushed.                                                        *)
(***************************************************************************)
C7_FinishRequiresFinalize ==
    FinishOk =>
        \A w \in Allocated : \A k \in 1..Len(hist[w].appended) :
            Count(PushedBy(w), hist[w].appended[k].col, hist[w].appended[k].val) >= 1

(***************************************************************************)
(* C8.  The output list is, at any time, the batches pushed and not taken  *)
(* by get_one, in push order, and the pushes happen in the order in which  *)
(* the flushes acquired the mutex; so finish returns exactly these, and    *)
(* the batches of one writer appear in the order the writer consumed their *)
(* values.                                                                 *)
(***************************************************************************)
\* The batches pushed and not popped, in push order.
Remaining ==
    LET Kept(e) == \A i \in 1..Len(popped) : popped[i] # e.rb
        sel == SelectSeq(pushed, Kept)
    IN  [i \in 1..Len(sel) |-> sel[i].rb]

\* The positions in its writer's consumption of the values of batch b.
Positions(b) == {b.columns[c].vals[k][2] : c \in 1..Len(b.columns),
                                            k \in 1..NumRows(b)}

C8_PushOrder ==
    /\ data = Remaining
    /\ Len(pushed) <= Len(acq)
    /\ \A i \in 1..Len(pushed) : pushed[i] = acq[i]
    /\ FinishOk =>
           /\ dret.val = Remaining
           /\ \A i, j \in 1..Len(dret.val) :
                  (i < j /\ dret.val[i].columns[1].vals[1][1]
                              = dret.val[j].columns[1].vals[1][1]) =>
                      \A m \in Positions(dret.val[i]), n \in Positions(dret.val[j]) :
                          m < n

\* finish returned a batch of the second writer before one of the first.
C8_Witness ==
    /\ FinishOk
    /\ Len(dret.val) = 2
    /\ dret.val[1].columns[1].vals[1][1] = 2
    /\ dret.val[2].columns[1].vals[1][1] = 1

(***************************************************************************)
(* C9.  consume::<T> on a writer whose current column has a tag that is    *)
(* not compatible with T returns TypeMismatch and has appended nothing:    *)
(* the builders are as before (none, if the writer had none), and no batch *)
(* is built or pushed.                                                     *)
(***************************************************************************)
C9_TypeMismatch ==
    [][\A w \in Writers, T \in ValueTypes :
          (/\ Consume(w, T)
           /\ writers[w].current_col < column_count(writers[w])
           /\ ~Check(writers[w].schema[writers[w].current_col + 1], T)) =>
              /\ writers'[w].ret = "TypeMismatch"
              /\ writers'[w].builders = writers[w].builders
              /\ writers'[w].rb = None /\ writers'[w].pc = "idle"
              /\ hist'[w].appended = hist[w].appended
              /\ data' = data /\ pushed' = pushed]_vars

\* A first consume that failed the check: no builders, nothing pushed.
C9_Witness ==
    \E w \in Writers :
        /\ writers[w].op = "consume" /\ writers[w].ret = "TypeMismatch"
        /\ writers[w].builders = None
        /\ hist[w].appended = << >>
        /\ pushed = << >>

(***************************************************************************)
(* C10.  After any sequence of set_schema, alloc_writer, consume and       *)
(* finalize calls, every batch pushed has the destination's Arrow schema   *)
(* as its schema, as many columns as the destination's schema, and column  *)
(* i of the type of field i.                                               *)
(***************************************************************************)
C10_SchemaConformance ==
    \A i \in 1..Len(pushed) :
        LET b == pushed[i].rb
        IN  /\ b.arrow_schema = arrow_schema
            /\ Len(b.columns) = Len(schema)
            /\ \A c \in 1..Len(b.columns) : b.columns[c].ty = b.arrow_schema[c].ty

(***************************************************************************)
(* C11.  finalize on a writer whose last call was a finalize that returned *)
(* Ok, or a consume that flushed at a batch boundary (the last value       *)
(* consumed is in a pushed batch), returns Ok, builds and pushes no batch  *)
(* and leaves the output list as it was; the writer is then finalized      *)
(* again, so the same holds for every repetition.                          *)
(***************************************************************************)
\* The last value writer w consumed is in a batch it pushed.
LastPushed(w) ==
    /\ hist[w].appended # << >>
    /\ LET e == hist[w].appended[Len(hist[w].appended)]
       IN  Count(PushedBy(w), e.col, e.val) >= 1

C11_Case(w) ==
    /\ Callable(w)
    /\ writers[w].ret = "Ok"
    /\ \/ writers[w].op = "finalize"
       \/ writers[w].op = "consume" /\ LastPushed(w)

C11_RefinalizeNoOp ==
    [][\A w \in Writers :
          (Finalize(w) /\ C11_Case(w)) =>
              /\ Finalized(writers'[w])
              /\ writers'[w].rb = None
              /\ data' = data /\ pushed' = pushed /\ acq' = acq]_vars

\* A writer that flushed at the exact boundary and was then finalized: one
\* batch, and no finalize ever took builders.
C11_Witness ==
    \E w \in Writers :
        /\ writers[w].st = "live" /\ Finalized(writers[w])
        /\ ~hist[w].err /\ hist[w].cut = "no"
        /\ writers[w].batch_size >= 1
        /\ Rows(w) = writers[w].batch_size
        /\ Len(PushedBy(w)) = 1

(***************************************************************************)
(* C12.  get_one, when the mutex is not poisoned, takes the lock and       *)
(* returns Ok: None when the output list is empty, else the batch pushed   *)
(* most recently among those still in the list, which it removes, leaving  *)
(* the others in their order.  It can be called while writers exist.       *)
(***************************************************************************)
C12_GetOneLifo ==
    [][/\ (get_one_lock /\ ~poisoned)
           => (dest' = "locked" /\ mutex' = {0} /\ dret'.res = "pending")
       /\ (dest = "locked" /\ dest' = "live") =>
           /\ dret'.op = "get_one" /\ dret'.res = "Ok"
           /\ IF Remaining = << >>
              THEN dret'.val = None /\ data' = << >>
              ELSE /\ dret'.val = Some(Remaining[Len(Remaining)])
                   /\ data' = SubSeq(Remaining, 1, Len(Remaining) - 1)]_vars

\* get_one has returned the newer of two batches, with a writer alive.
C12_Witness ==
    /\ dret.op = "get_one" /\ dret.res = "Ok"
    /\ Len(pushed) = 2
    /\ dret.val = Some(pushed[2].rb)
    /\ data = << pushed[1].rb >>
    /\ \E w \in Writers : writers[w].st = "live"

(***************************************************************************)
(* C13.  The first fetch_next call returns (total_rows, true), and a later *)
(* one, called when k <= total_rows complete rows have been produced,      *)
(* returns (total_rows - k, true), also when the k rows span more than one *)
(* page.                                                                   *)
(***************************************************************************)
\* Every produce call so far returned a value.
AllProduced == \A k \in 1..Len(produced) : produced[k].res = "Ok"

C13_FetchNextRemaining ==
    [][(fetch_next /\ parser.ncols >= 1) =>
          /\ (parser.nrows = None /\ produced = << >>) =>
                 (pret'.res = "Ok" /\ pret'.n = table.total_rows /\ pret'.last)
          /\ (/\ parser.nrows # None
              /\ AllProduced
              /\ Len(produced) % parser.ncols = 0
              /\ Len(produced) <= table.total_rows * parser.ncols) =>
                 /\ pret'.res = "Ok" /\ pret'.last
                 /\ pret'.n = table.total_rows
                                  - (Len(produced) \div parser.ncols)]_vars

(***************************************************************************)
(* C14.  Every produce call on a parser with ncols >= 1 leaves current_col *)
(* in [0, ncols): it increments current_col by one, and exactly when that  *)
(* would reach ncols it resets current_col to 0 and advances current_row   *)
(* by exactly one.                                                         *)
(***************************************************************************)
C14_CursorAdvance ==
    [][\A opt \in BOOLEAN :
          (produce(opt) /\ parser.ncols >= 1) =>
              /\ parser'.current_col \in 0..(parser.ncols - 1)
              /\ IF parser.current_col + 1 = parser.ncols
                 THEN /\ parser'.current_col = 0
                      /\ parser'.current_row = parser.current_row + 1
                 ELSE parser'.current_col = parser.current_col + 1]_vars

Exhausted ==
    /\ parser.ncols >= 1
    /\ Len(produced) >= table.total_rows * parser.ncols
    /\ \A k \in 0..(table.total_rows * parser.ncols - 1) :
           /\ produced[k + 1].res \in {"Ok", "ValueNone"}
           /\ produced[k + 1].row = k \div parser.ncols
           /\ produced[k + 1].col = k % parser.ncols

C16_EndOfPartition ==
    Exhausted =>
        \A k \in (table.total_rows * parser.ncols + 1)..Len(produced) :
            /\ produced[k].res \notin {"Ok", "ValueNone", "panic"}
            /\ ~produced[k].fetched

(***************************************************************************)
(* C17.  For the cells of a result taken in order (ncols >= 1), the k-th   *)
(* produce call yields no value exactly when the k-th cell is null: on a   *)
(* null cell produce::<Option<T>> returns None and produce::<T> fails      *)
(* (UnexpectedNull: the error "value is none"); on any other cell both     *)
(* return its value.                                                       *)
(***************************************************************************)
C17_NullPositions ==
    parser.ncols >= 1 =>
        \A k \in 0..(Len(produced) - 1) :
            k < table.total_rows * parser.ncols =>
                LET o == produced[k + 1]
                IN  IF IsNull(k \div parser.ncols, k % parser.ncols)
                    THEN \/ o.res = "ValueNone"
                         \/ o.res = "Ok" /\ o.val = None
                    ELSE o.res = "Ok" /\ o.val # None

(***************************************************************************)
(* C18.  fetch_metadata returns the schema of the probe of the first query *)
(* given to set_queries, the source stores that schema as its names and    *)
(* types, and every reader made afterwards is handed its types, whatever   *)
(* the other queries' probes return.                                       *)
(***************************************************************************)
C18_FirstQuerySchema ==
    /\ (source.ret.op = "fetch_metadata" /\ source.ret.res = "Ok") =>
           /\ ProbeOf(source.queries[1]) # None
           /\ source.ret.schema = ProbeOf(source.queries[1])[1]
           /\ source.schema = ProbeOf(source.queries[1])[1]
    /\ (source.ret.op = "reader" /\ source.ret.res = "Ok" /\ source.probed) =>
           source.ret.types = TypesOf(ProbeOf(source.queries[1])[1])

(***************************************************************************)
(* C19.  alloc_writer with a data order other than RowMajor fails with     *)
(* UnsupportedDataOrder and creates no writer: the writers, and so the     *)
(* holders of the output handle, are as before, and the destination's      *)
(* schema, Arrow schema, batch_size and output list are unchanged.         *)
(***************************************************************************)
C19_UnsupportedOrder ==
    [][\A o \in DataOrders \ {"RowMajor"} :
          alloc_writer(o) =>
              /\ dret'.res = "UnsupportedDataOrder"
              /\ writers' = writers
              /\ {w \in Writers : writers'[w].st = "live"}
                     = {w \in Writers : writers[w].st = "live"}
              /\ schema' = schema /\ arrow_schema' = arrow_schema
              /\ batch_size' = batch_size
              /\ data' = data /\ poisoned' = poisoned /\ dest' = dest]_vars

\* The call has failed on a destination with a schema, a dropped writer and
\* a batch in the output list, and no writer is alive: finish can succeed.
C19_Witness ==
    /\ dret.op = "alloc_writer" /\ dret.res = "UnsupportedDataOrder"
    /\ schema # << >> /\ data # << >>
    /\ \A w \in Writers : writers[w].st # "live"

(***************************************************************************)
(* C20.  set_schema called with a schema of zero columns fails with        *)
(* SchemaError and leaves the destination's schema and Arrow schema as     *)
(* they were.                                                              *)
(***************************************************************************)
C20_EmptySchemaRejected ==
    [][\A s \in Schemas :
          (set_schema(s) /\ Len(s) = 0) =>
              /\ dret'.res = "SchemaError"
              /\ schema' = schema
              /\ arrow_schema' = arrow_schema]_vars

(***************************************************************************)
(* C21.  The output list changes only in a step of the thread that holds   *)
(* the output mutex, at most one thread holds it at a time, and a flush    *)
(* acquires it with its RecordBatch already built (builders taken and      *)
(* finished, try_new succeeded) and holds it for one push of that batch    *)
(* only: the holder's next step pushes the batch (or panics) and releases  *)
(* the lock.                                                               *)
(***************************************************************************)
C21_LockDiscipline ==
    [][/\ data' # data => mutex # {}
       /\ Cardinality(mutex) <= 1 /\ Cardinality(mutex') <= 1
       /\ \A w \in Writers :
              /\ (w \notin mutex /\ w \in mutex') =>
                     /\ mutex = {}
                     /\ writers[w].builders = None
                     /\ writers[w].rb # None
                     /\ TryNewOk(writers[w].rb[1].arrow_schema,
                                 writers[w].rb[1].columns)
                     /\ writers'[w].rb = writers[w].rb
                     /\ data' = data
              /\ w \in mutex =>
                     /\ writers[w].pc = "held"
                     /\ writers'[w] # writers[w] =>
                            /\ mutex' = {}
                            /\ writers'[w].pc = "idle"
                            /\ \/ data' = Append(data, writers[w].rb[1])
                               \/ data' = data /\ writers'[w].ret = "panic"
                     /\ writers'[w] = writers[w] => (data' = data /\ mutex' = mutex)
       /\ (0 \in mutex /\ data' # data) => (dest = "locked" /\ dest' = "live")]_vars

\* One writer holds the lock with its batch built, another waits for it
\* with its own batch built.
C21_Witness ==
    \E w, v \in Writers :
        /\ w # v
        /\ mutex = {w} /\ writers[w].pc = "held" /\ writers[w].rb # None
        /\ writers[v].pc = "wait" /\ writers[v].rb # None

(***************************************************************************)
(* C22.  With the output mutex poisoned, finish and get_one each return    *)
(* the MutexPoisoned error and no batches, and a flush that reaches the    *)
(* lock fails with MutexPoisoned and pushes nothing.                       *)
(***************************************************************************)
C22_Poisoned ==
    [][/\ (poisoned /\ dest = "live" /\ dest' = "gone") =>
              (dret'.res = "MutexPoisoned" /\ dret'.val = << >>)
       /\ (poisoned /\ get_one_lock) =>
              (dret'.res = "MutexPoisoned" /\ dret'.val = << >> /\ data' = data)
       /\ \A w \in Writers :
              (poisoned /\ writers[w].pc = "wait" /\ writers'[w].pc # "wait") =>
                  /\ writers'[w].ret = "MutexPoisoned"
                  /\ data' = data /\ pushed' = pushed]_vars

\* As amended: finish fails with NotFreed while a writer is outstanding and
\* with MutexPoisoned otherwise, in both cases without any batch.
C22_PoisonedOrNotFreed ==
    [][/\ (poisoned /\ dest = "live" /\ dest' = "gone") =>
              /\ dret'.res = (IF \E w \in Writers : writers[w].st = "live"
                              THEN "NotFreed" ELSE "MutexPoisoned")
              /\ dret'.val = << >>
       /\ (poisoned /\ get_one_lock) =>
              (dret'.res = "MutexPoisoned" /\ dret'.val = << >> /\ data' = data)
       /\ \A w \in Writers :
              (poisoned /\ writers[w].pc = "wait" /\ writers'[w].pc # "wait") =>
                  /\ writers'[w].ret = "MutexPoisoned"
                  /\ data' = data /\ pushed' = pushed]_vars

\* finish has failed on a poisoned mutex that guards a batch, with every
\* writer dropped.
C22_Witness ==
    /\ dret.op = "finish" /\ dret.res = "MutexPoisoned"
    /\ poisoned /\ data # << >>
    /\ \A w \in Writers : writers[w].st # "live"

(***************************************************************************)
(* C23.  table_create with a schema that has a field of a type without a   *)
(* native mapping returns the UnsupportedType error: it executes no CREATE *)
(* TABLE, creates no table, and does not panic.                            *)
(***************************************************************************)
C23_UnsupportedReported ==
    [][(/\ store'.ret.op = "table_create"
        /\ \E i \in 1..Len(store'.ret.arg) :
               store'.ret.arg[i].data_type.kind \in UnimplementedKinds \cup TodoKinds) =>
           /\ store'.ret.res = "UnsupportedType"
           /\ store'.ret.ddl = None
           /\ store'.tables = store.tables]_vars

(***************************************************************************)
(* C24.  The CREATE TABLE statement table_create executes declares, for    *)
(* every field of the schema, a column of the field's name and of the      *)
(* native type the table of the specification gives for the field's type,  *)
(* NOT NULL exactly when the field is non-nullable and its type is not     *)
(* Null; and the table created has these columns.                          *)
(***************************************************************************)
\* The native type of the specification's table.
C24_Native(dt) ==
    CASE dt.kind = "Boolean" -> "BOOLEAN"
      [] dt.kind \in {"Int8", "UInt8"} ->
             IF dt.kind = "Int8" THEN "TINYINT" ELSE "UTINYINT"
      [] dt.kind \in {"Int16", "UInt16"} ->
             IF dt.kind = "Int16" THEN "SMALLINT" ELSE "USMALLINT"
      [] dt.kind \in {"Int32", "UInt32"} ->
             IF dt.kind = "Int32" THEN "INTEGER" ELSE "UINTEGER"
      [] dt.kind \in {"Int64", "UInt64"} ->
             IF dt.kind = "Int64" THEN "BIGINT" ELSE "UBIGINT"
      [] dt.kind \in {"Float16", "Float32"} -> "REAL"
      [] dt.kind = "Float64" -> "DOUBLE"
      [] dt.kind = "Timestamp" ->
             IF dt.unit = "Microsecond" THEN "TIMESTAMP" ELSE "BIGINT"
      [] dt.kind \in {"Utf8", "LargeUtf8"} -> "VARCHAR"
      [] dt.kind \in {"Binary", "LargeBinary", "FixedSizeBinary"} -> "BLOB"
      [] dt.kind = "Null" -> "BIGINT"

C24_TypeMapping ==
    (store.ret.op = "table_create" /\ store.ret.ddl # None) =>
        LET sch == store.ret.arg
            defs == store.ret.ddl[1].column_defs
        IN  /\ Len(defs) = Len(sch)
            /\ \A i \in 1..Len(sch) :
                   /\ defs[i].name = sch[i].name
                   /\ defs[i].ty = C24_Native(sch[i].data_type)
                   /\ defs[i].not_null
                          <=> (~sch[i].nullable /\ sch[i].data_type.kind # "Null")
            /\ store.ret.res = "Ok" =>
                   store.tables[store.ret.ddl[1].create][1].cols = defs

\* A table created with a non-nullable nanosecond timestamp, stored as
\* BIGINT NOT NULL, and a non-nullable Null column, stored as BIGINT.
C24_Witness ==
    /\ store.ret.op = "table_create" /\ store.ret.res = "Ok"
    /\ store.ret.arg = << [name |-> "c1", data_type |-> Timestamp("Nanosecond", TRUE),
                           nullable |-> FALSE],
                          [name |-> "c2", data_type |-> DT("Null"),
                           nullable |-> FALSE] >>
    /\ store.tables["t"]
           = Some([cols |-> << [name |-> "c1", ty |-> "BIGINT", not_null |-> TRUE],
                               [name |-> "c2", ty |-> "BIGINT", not_null |-> FALSE] >>,
                   batches |-> << >>])

(***************************************************************************)
(* C25.  The round trip of a file of one batch or more returns, whatever   *)
(* the batches and whatever coerce_ty: the batch list read back from the   *)
(* store equals the file's batch list cast by coerce_ty.                   *)
(***************************************************************************)
C25_RoundTrip ==
    (store.ret.op = "roundtrip" /\ store.ret.lens # << >>) =>
        /\ store.ret.res = "Ok"
        /\ store.ret.got = store.ret.expected
        /\ Len(store.ret.got) = Len(store.ret.lens)

(***************************************************************************)
(* C26.  Whenever consume calls flush, the writer's current_col is 0 and   *)
(* all its builders hold the same number of values: for every schema of    *)
(* one column or more and every batch_size the constructor accepts.        *)
(***************************************************************************)
\* The step is a consume of writer w that appended its value and went on to
\* call flush (which takes the builders).
ConsumeFlushed(w) ==
    /\ writers[w].pc = "idle"
    /\ Len(hist'[w].appended) = Len(hist[w].appended) + 1
    /\ writers'[w].builders = None

C26_FlushOnRowBoundary ==
    [][\A w \in Writers :
          ConsumeFlushed(w) =>
              /\ writers'[w].current_col = 0
              /\ writers'[w].ret # "ShapeMismatch"
              /\ writers'[w].rb # None
              /\ \A c, d \in 1..Len(writers'[w].rb[1].columns) :
                     Len(writers'[w].rb[1].columns[c].vals)
                         = Len(writers'[w].rb[1].columns[d].vals)]_vars

(***************************************************************************)
(* C27.  A flush, from finalize or from consume, of builders that hold     *)
(* different numbers of values fails with ShapeMismatch: no batch is       *)
(* built, the lock is not taken, and nothing is pushed.                    *)
(***************************************************************************)
\* The builders hold different numbers of values.
Uneven(builders) ==
    \E i, j \in 1..Len(builders[1]) :
        Len(builders[1][i].vals) # Len(builders[1][j].vals)

\* The number of values the writer's builders hold.
Buffered(wr) ==
    IF wr.builders = None THEN 0
    ELSE Sum([i \in 1..Len(wr.builders[1]) |-> Len(wr.builders[1][i].vals)])

\* The step is a call of writer w that calls flush with uneven builders.
FlushUneven(w) ==
    \/ Finalize(w) /\ writers[w].builders # None /\ Uneven(writers[w].builders)
    \/ /\ ConsumeFlushed(w)
       /\ Uneven(AppendTo(allocate(writers[w]), writers[w].current_col,
                          << w, Len(hist[w].appended) >>))

C27_MidRowFlushFails ==
    [][\A w \in Writers :
          FlushUneven(w) =>
              /\ writers'[w].ret = "ShapeMismatch"
              /\ writers'[w].pc = "idle" /\ writers'[w].rb = None
              /\ mutex' = mutex /\ acq' = acq
              /\ data' = data /\ pushed' = pushed]_vars

\* A finalize after the first cell of a two-column row has failed.
C27_Witness ==
    \E w \in Writers :
        /\ writers[w].op = "finalize" /\ writers[w].ret = "ShapeMismatch"
        /\ column_count(writers[w]) = 2
        /\ Len(hist[w].appended) = 1
        /\ writers[w].batch_size >= 1
        /\ pushed = << >>

(***************************************************************************)
(* C28.  A flush that fails after it has taken the builders (the batch     *)
(* cannot be built, or the mutex is poisoned) leaves the writer without    *)
(* builders and without a batch, pushes nothing and leaves current_row and *)
(* current_col as they were when flush was entered; the values buffered    *)
(* are in no batch, and a finalize called next returns Ok and pushes       *)
(* nothing.                                                                *)
(***************************************************************************)
FlushErrors == {"ShapeMismatch", "MutexPoisoned"}

\* The step is one in which a flush of writer w fails.
FlushFails(w) ==
    /\ writers'[w].ret \in FlushErrors
    /\ writers'[w] # writers[w]

C28_FailedFlushDiscards ==
    [][\A w \in Writers :
          /\ FlushFails(w) =>
                 /\ writers'[w].builders = None /\ writers'[w].rb = None
                 /\ writers'[w].pc = "idle"
                 /\ data' = data /\ pushed' = pushed
                 /\ LET entered == IF writers[w].pc = "idle" /\ writers'[w].op = "consume"
                                   THEN Advance(writers[w]) ELSE writers[w]
                    IN  /\ writers'[w].current_row = entered.current_row
                        /\ writers'[w].current_col = entered.current_col
                 /\ hist'[w].appended # << >>
                 /\ ~LastPushed(w)'
          /\ (Finalize(w) /\ writers[w].ret \in FlushErrors) =>
                 /\ Finalized(writers'[w])
                 /\ writers'[w].builders = None /\ writers'[w].rb = None
                 /\ data' = data /\ pushed' = pushed /\ acq' = acq]_vars

\* A writer finalized with Ok after a flush of its one buffered value
\* failed: the value is in no batch.
C28_Witness ==
    \E w \in Writers :
        /\ writers[w].st = "live" /\ Finalized(writers[w])
        /\ hist[w].err
        /\ Len(hist[w].appended) = 1
        /\ writers[w].batch_size >= 1
        /\ pushed = << >> /\ data = << >>

(***************************************************************************)
(* C29.  A consume that fails the type check leaves the cursor one cell    *)
(* further (the next column, or column 0 of the next row after the last    *)
(* column) and the builders as they were: the writer is not as before the  *)
(* call, and a cursor that agreed with the number of values buffered       *)
(* agrees no longer.                                                       *)
(***************************************************************************)
\* The cell the cursor is at, counted in row-major order.
CursorCell(wr) == wr.current_row * column_count(wr) + wr.current_col

C29_FailedCheckAdvances ==
    [][\A w \in Writers, T \in ValueTypes :
          (/\ Consume(w, T)
           /\ writers[w].current_col < column_count(writers[w])
           /\ ~Check(writers[w].schema[writers[w].current_col + 1], T)) =>
              /\ writers'[w].ret = "TypeMismatch"
              /\ IF writers[w].current_col + 1 = column_count(writers[w])
                 THEN /\ writers'[w].current_col = 0
                      /\ writers'[w].current_row = writers[w].current_row + 1
                 ELSE /\ writers'[w].current_col = writers[w].current_col + 1
                      /\ writers'[w].current_row = writers[w].current_row
              /\ writers'[w].builders = writers[w].builders
              /\ hist'[w].appended = hist[w].appended
              /\ CursorCell(writers'[w]) = CursorCell(writers[w]) + 1
              /\ (CursorCell(writers[w]) = Buffered(writers[w]))
                     => CursorCell(writers'[w]) # Buffered(writers'[w])]_vars

\* After one value of a two-column row, a consume has failed the check: the
\* cursor is at the next row and the builders hold that one value.
C29_Witness ==
    \E w \in Writers :
        /\ writers[w].op = "consume" /\ writers[w].ret = "TypeMismatch"
        /\ column_count(writers[w]) = 2
        /\ writers[w].current_row = 1 /\ writers[w].current_col = 0
        /\ Buffered(writers[w]) = 1

(***************************************************************************)
(* C30.  Between the calls of a writer with one column or more and         *)
(* batch_size >= 1, current_col is in [0, ncols) and current_row in        *)
(* [0, batch_size); a consume that appends its value moves current_col on  *)
(* by one, back to 0 and current_row on by one after the last column; and  *)
(* a flush that pushes its batch sets both to 0.                           *)
(***************************************************************************)
CursorInRange(w) ==
    (/\ writers[w].st = "live" /\ writers[w].pc = "idle"
     /\ column_count(writers[w]) >= 1 /\ writers[w].batch_size >= 1) =>
        /\ writers[w].current_col \in 0..(column_count(writers[w]) - 1)
        /\ writers[w].current_row \in 0..(writers[w].batch_size - 1)

C30_CursorInvariant ==
    [][\A w \in Writers :
          /\ CursorInRange(w) /\ CursorInRange(w)'
          /\ (writers[w].pc = "idle"
                  /\ Len(hist'[w].appended) = Len(hist[w].appended) + 1) =>
                 IF writers[w].current_col + 1 = column_count(writers[w])
                 THEN /\ writers'[w].current_col = 0
                      /\ writers'[w].current_row = writers[w].current_row + 1
                 ELSE /\ writers'[w].current_col = writers[w].current_col + 1
                      /\ writers'[w].current_row = writers[w].current_row
          /\ Len(PushedBy(w))' = Len(PushedBy(w)) + 1 =>
                 (writers'[w].current_row = 0 /\ writers'[w].current_col = 0)]_vars

(***************************************************************************)
(* C31.  Builders are allocated lazily: a writer has none from             *)
(* alloc_writer until its first consume that passes the type check, a      *)
(* flush leaves it with none, and the consume after a flush allocates a    *)
(* fresh set of exactly ncols builders; with batch_size = 1 every row      *)
(* allocates the builders once, at its first cell, and pushes exactly one  *)
(* batch of one row.                                                       *)
(***************************************************************************)
\* The step is a consume of writer w that appends its value.
ConsumeAppends(w) ==
    /\ writers[w].pc = "idle"
    /\ Len(hist'[w].appended) = Len(hist[w].appended) + 1

\* The number of values in the batch the writer is about to push.
InFlight(wr) ==
    IF wr.rb = None THEN 0
    ELSE Sum([i \in 1..Len(wr.rb[1].columns) |-> Len(wr.rb[1].columns[i].vals)])

\* With batch_size = 1 and no error: every batch of w has one row, and
\* there is one (pushed or about to be) for every row consumed.
OneBatchPerRow(w) ==
    (writers[w].batch_size = 1 /\ ~hist[w].err /\ writers[w].st # "none") =>
        /\ \A i \in 1..Len(PushedBy(w)) : NumRows(PushedBy(w)[i]) = 1
        /\ Len(PushedBy(w)) + (IF writers[w].rb = None THEN 0 ELSE 1) = Rows(w)
        /\ writers[w].rb # None => NumRows(writers[w].rb[1]) = 1

C31_LazyBuilders ==
    [][\A w \in Writers :
          /\ hist'[w].appended = << >> => writers'[w].builders = None
          /\ (Finalize(w) \/ writers'[w].pc # "idle" \/ writers[w].pc # "idle")
                 => writers'[w].builders = None
          /\ (ConsumeAppends(w) /\ writers[w].builders = None) =>
                 \/ /\ writers'[w].builders # None
                    /\ Len(writers'[w].builders[1]) = column_count(writers[w])
                    /\ Buffered(writers'[w]) = 1
                 \/ /\ writers'[w].builders = None /\ writers'[w].pc = "wait"
                    /\ Len(writers'[w].rb[1].columns) = column_count(writers[w])
                    /\ InFlight(writers'[w]) = 1
                 \/ /\ writers'[w].builders = None
                    /\ writers'[w].ret = "ShapeMismatch"
          /\ (ConsumeAppends(w) /\ writers[w].batch_size = 1 /\ ~hist'[w].err) =>
                 /\ writers[w].builders = None <=> writers[w].current_col = 0
                 /\ IF writers[w].current_col + 1 = column_count(writers[w])
                    THEN /\ writers'[w].pc = "wait"
                         /\ writers'[w].builders = None
                    ELSE /\ writers'[w].pc = "idle"
                         /\ writers'[w].builders # None
          /\ OneBatchPerRow(w) /\ OneBatchPerRow(w)']_vars

\* A writer with batch_size 1 and two columns has consumed two rows without
\* an error and pushed two batches.
C31_Witness ==
    \E w \in Writers :
        /\ writers[w].st = "live" /\ writers[w].pc = "idle"
        /\ writers[w].batch_size = 1 /\ column_count(writers[w]) = 2
        /\ ~hist[w].err
        /\ Rows(w) = 2 /\ Len(PushedBy(w)) = 2
        /\ writers[w].builders = None

(***************************************************************************)
(* C32.  produce and consume never abort the process: a parser over a      *)
(* schema without columns (a reader made before fetch_metadata) and a      *)
(* writer without columns (allocated before set_schema, or over an empty   *)
(* schema) return an error value, not a panic, when asked for or given a   *)
(* cell.                                                                   *)
(***************************************************************************)
C32_NoPanic ==
    [][/\ \A w \in Writers, T \in ValueTypes :
              Consume(w, T) => writers'[w].ret # "panic"
       /\ \A opt \in BOOLEAN :
              produce(opt) => pret'.res # "panic"]_vars

(***************************************************************************)
(* C33.  However the writers' flushes and the get_one calls interleave,    *)
(* every batch pushed is delivered exactly once: the batches get_one has   *)
(* returned together with the list (the one finish() returns, when it      *)
(* returns one) are the batches pushed, none twice and none missing.       *)
(***************************************************************************)
\* How many times batch b occurs in the list bs.
Occurrences(bs, b) == Cardinality({i \in 1..Len(bs) : bs[i] = b})

\* The batches of delivered are the batches pushed, each once.
ExactlyOnce(delivered) ==
    /\ Len(delivered) = Len(pushed)
    /\ \A i \in 1..Len(pushed) : Occurrences(delivered, pushed[i].rb) = 1

C33_DeliveredOnce ==
    /\ ExactlyOnce(popped \o data)
    /\ FinishOk => ExactlyOnce(popped \o dret.val)

\* finish has returned a list after a get_one returned a batch, with a batch
\* left for finish to return.
C33_Witness ==
    /\ FinishOk
    /\ popped # << >>
    /\ dret.val # << >>

(***************************************************************************)
(* C34.  The destination's schema and its Arrow schema describe the same   *)
(* columns in the same order after any sequence of set_schema calls, those *)
(* that fail with UnsupportedType included; a set_schema that fails leaves *)
(* the schema installed before it in effect for the writers allocated      *)
(* afterwards.                                                             *)
(***************************************************************************)
\* The two schemas have the same columns, in order.
SchemasAgree(sch, arrow) ==
    /\ Len(sch) = Len(arrow)
    /\ \A i \in 1..Len(sch) : sch[i].name = arrow[i].name /\ sch[i].ty = arrow[i].ty

C34_SchemasAgree ==
    [][/\ SchemasAgree(schema, arrow_schema) /\ SchemasAgree(schema', arrow_schema')
       /\ \A s \in Schemas :
              (set_schema(s) /\ dret'.res = "UnsupportedType") =>
                  (schema' = schema /\ arrow_schema' = arrow_schema)
       /\ \A w \in Writers :
              (writers[w].st = "none" /\ writers'[w].st = "live") =>
                  /\ Len(writers'[w].schema) = Len(writers'[w].arrow_schema)
                  /\ \A i \in 1..Len(writers'[w].schema) :
                         writers'[w].schema[i] = writers'[w].arrow_schema[i].ty]_vars

(***************************************************************************)
(* C36.  A component accepts a data order exactly when it advertises it:   *)
(* BigQuerySource::reader succeeds for an order if and only if the order   *)
(* is in the source's DATA_ORDERS, and ArrowDestination::alloc_writer      *)
(* succeeds for an order if and only if it is in the destination's         *)
(* DATA_ORDERS.                                                            *)
(***************************************************************************)
C36_AcceptsAdvertised ==
    [][/\ \A o \in DataOrders :
              alloc_writer(o) =>
                  (dret'.res = "Ok" <=> o \in DestinationDataOrders)
       /\ \A q \in Queries, o \in DataOrders :
              reader(q, o) =>
                  (source'.ret.res = "Ok" <=> o \in SourceDataOrders)]_vars

(***************************************************************************)
(* C37.  fetch_next is legal only at a row boundary: called while          *)
(* current_col is not 0 it aborts on its assertion, returns no row count   *)
(* and changes neither the cursor nor the cached nrows; called at          *)
(* current_col = 0 it never changes current_row or current_col.            *)
(***************************************************************************)
C37_FetchAtRowBoundary ==
    [][fetch_next =>
          IF parser.current_col # 0
          THEN /\ pret'.res = "panic" /\ pret'.n = 0
               /\ parser' = parser
               /\ response' = response
          ELSE /\ parser'.current_row = parser.current_row
               /\ parser'.current_col = parser.current_col]_vars

\* fetch_next has aborted in the middle of a row, after an earlier call had
\* cached nrows.
C37_Witness ==
    /\ pret.op = "fetch_next" /\ pret.res = "panic"
    /\ parser.current_col # 0
    /\ parser.nrows # None
    /\ produced # << >>

(***************************************************************************)
(* C35.  For every produced type T and every cell that is not null, the    *)
(* two producers agree: produce::<Option<T>> returns Some(v) exactly when  *)
(* produce::<T> returns v, and an error exactly when produce::<T> returns  *)
(* an error; a cell that is not null never yields None.                    *)
(***************************************************************************)
C35_ProducersAgree ==
    (cell.value # None /\ cell.plain # NoConv /\ cell.option # NoConv) =>
        /\ cell.option.res = "Ok" <=> cell.plain.res = "Ok"
        /\ cell.plain.res = "Ok" => cell.option.val = Some(cell.plain.val)
        /\ cell.option.val # Some(None)

(***************************************************************************)
(* C38.  With writers flushing and a consumer calling get_one at the same  *)
(* time no execution deadlocks: under fair scheduling every flush that has *)
(* started (it has built its batch and goes for the output mutex)          *)
(* eventually acquires the mutex, pushes its batch and returns.            *)
(***************************************************************************)
\* Writer w is inside a flush, waiting for the mutex, and has pushed n
\* batches so far.
FlushStarted(w, n) == writers[w].pc = "wait" /\ Len(PushedBy(w)) = n

\* Writer w has pushed its next batch and is back from the flush.
FlushPushed(w, n) == writers[w].pc = "idle" /\ Len(PushedBy(w)) = n + 1

\* Writer w is back from the flush with the error of a poisoned mutex, or
\* the panic that poisoned it, and has pushed nothing.
FlushPoisoned(w, n) ==
    /\ writers[w].pc = "idle" /\ Len(PushedBy(w)) = n
    /\ writers[w].ret \in {"MutexPoisoned", "panic"}
    /\ poisoned

C38_FlushPushes ==
    \A w \in Writers, n \in 0..MaxCalls :
        FlushStarted(w, n) ~> FlushPushed(w, n)

\* As amended: the flush returns, with its batch pushed or, when the mutex is
\* or becomes poisoned, with nothing pushed.
C38_FlushReturns ==
    \A w \in Writers, n \in 0..MaxCalls :
        FlushStarted(w, n) ~> (FlushPushed(w, n) \/ FlushPoisoned(w, n))

\* A flush waits for the mutex while get_one holds it, and another while a
\* flush of the other writer holds it.
C38_Witness ==
    \/ mutex = {0} /\ \E w \in Writers : writers[w].pc = "wait"
    \/ \E w, v \in Writers : writers[w].pc = "wait" /\ mutex = {v}

====
